---- MODULE Spec2Model ----
(***************************************************************************)
(* Matchmaking queue, pairing scan, live-match state machine and room      *)
(* server of players-unknown-games-grounds, modelled from the TypeScript   *)
(* sources.  Each subsystem has its own specification over the shared      *)
(* variables:                                                             *)
(*   SpecFind  - MatchmakingService.findMatches / isGoodMatch (pure)       *)
(*   SpecGame  - BaseGame (event-emitter version with timers)              *)
(*   SpecRoom  - GameServer / GameRoom socket handlers                     *)
(*   SpecQueue - MatchmakingService addToQueue / processQueue interleaved  *)
(***************************************************************************)
EXTENDS Integers, Sequences, FiniteSets, TLC

\* ---------------------------------------------------------------- bounds
MaxFind == 4          \* longest snapshot handed to findMatches
MaxRequired == 3      \* largest requiredPlayers tried
MaxMoves == 2         \* longest move log
MaxGrace == 2         \* most reconnection timers pending at once
MaxRooms == 2         \* most rooms created
MaxTicks == 1         \* clock ticks of the queue model
MaxJoinRuns == 2      \* addToQueue calls started
MaxScanRuns == 2      \* processQueue calls started
MaxParticipants == 3  \* most GameResults passed to calculateNewRatings

\* ------------------------------------------------------ program constants
ELO_THRESHOLD == 100
EXPANSION_INTERVAL == 30000
EXPANSION_STEP == 50
DEFAULT_ELO == 1000

MatchTypes == {"casual", "ranked"}

\* Ratings and instants (ms) the inputs are drawn from.
EloValues == {1000, 1150, 1200}
JoinTimes == {0, 30000, 65000}
ScanTimes == {65000, 95000}

VARIABLES
  fmPc,        \* SpecFind: "input" before the call, "done" after it
  fmPlayers,   \* the snapshot handed to findMatches (QueueEntry[])
  fmRequired,  \* requiredPlayers
  fmType,      \* matchType
  fmNow,       \* Date.now() during the call
  fmResult     \* [matches, usedPlayers] left by the call


VARIABLES
  game         \* SpecGame: one BaseGame object, its timers and its last outputs


VARIABLES
  socketUser,  \* SpecRoom: socket -> socket.data.user (NoUser before authenticate)
  gameRooms,   \* GameServer.gameRooms, in creation order; a room's id is its index
  playerRooms, \* GameServer.playerRooms: userId -> roomId (NoRoom when absent)
  deletedRooms, \* ids of the rooms gameRooms.delete has taken out of the map
  roomTimers   \* rooms whose 30 s clean-up timer of handleGameEnd is pending


VARIABLES
  legacyGame       \* SpecLegacy: a TicTacToeGame of games/ (games/BaseGame.ts)

VARIABLES
  eloPc,           \* SpecElo: "input" before the call, "done" after it
  eloResults,      \* the GameResult[] passed to calculateNewRatings
  eloNewRatings    \* the Map it returned: userId -> new rating

VARIABLES
  user_statistics,   \* SpecLedger: committed rows of user_statistics, by user
  game_participants, \* committed rows of game_participants, by session and user
  calls              \* updatePlayerRatings calls, by slot

VARIABLES
  clock,           \* SpecQueue: Date.now() / NOW(), in ms
  queue,           \* rows of matchmaking_queue
  nextRowId,       \* the id the next inserted row gets
  socketKeys,      \* users with a live redis key socket:<userId>
  keyTtl,          \* when each user's socket key expires (0: never set)
  queueIntervals,  \* MatchmakingService.queueIntervals: partitions with a scan interval
  statusIntervals, \* the per-socket queue-status intervals of server.ts
  scans,           \* processQueue calls in progress, by slot
  joins,           \* addToQueue calls in progress, by slot
  committed,       \* the MatchResults created so far, in order
  matchFound,      \* <<user, index in committed>> of every match-found emitted
  scanRuns,        \* processQueue calls started so far
  joinRuns         \* addToQueue calls started so far

findVars == <<fmPc, fmPlayers, fmRequired, fmType, fmNow, fmResult>>
roomVars == <<socketUser, gameRooms, playerRooms, deletedRooms, roomTimers>>
eloVars == <<eloPc, eloResults, eloNewRatings>>
ledgerVars == <<user_statistics, game_participants, calls>>
restVars == <<legacyGame, eloVars, ledgerVars>>
queueVars == <<clock, queue, nextRowId, socketKeys, keyTtl, queueIntervals,
               statusIntervals,
               scans, joins, committed, matchFound, scanRuns, joinRuns>>
vars == <<findVars, game, roomVars, queueVars, restVars>>

\* ------------------------------------------------------------ pure helpers
Abs(x) == IF x < 0 THEN -x ELSE x

\* Math.floor(a / b) for b > 0; TLA+ \div already rounds towards minus infinity.
Floor(a, b) == a \div b

SeqToSet(s) == {s[i] : i \in 1..Len(s)}

UserIds(s) == {s[i].user_id : i \in 1..Len(s)}

\* Array.prototype.sort with the joined_at comparator: a stable insertion sort.
RECURSIVE InsertSorted(_, _)
InsertSorted(s, e) ==
  IF s = <<>> THEN <<e>>
  ELSE IF s[Len(s)].joined_at <= e.joined_at THEN Append(s, e)
  ELSE Append(InsertSorted(SubSeq(s, 1, Len(s) - 1), e), s[Len(s)])

RECURSIVE SortByJoined(_)
SortByJoined(s) ==
  IF s = <<>> THEN <<>>
  ELSE InsertSorted(SortByJoined(SubSeq(s, 1, Len(s) - 1)), s[Len(s)])

IsSortedByJoined(s) == \A i \in 1..(Len(s) - 1) : s[i].joined_at <= s[i + 1].joined_at

\* MatchmakingService.isGoodMatch; now stands for Date.now().
expandedThreshold(player1, now) ==
  ELO_THRESHOLD + Floor(now - player1.joined_at, EXPANSION_INTERVAL) * EXPANSION_STEP

isGoodMatchOpponentWait(player1, player2, matchType, now) ==
  IF matchType = "casual" THEN TRUE
  ELSE Abs(player1.elo_rating - player2.elo_rating) <= expandedThreshold(player2, now)

isGoodMatch(player1, player2, matchType, now) ==
  IF matchType = "casual" THEN TRUE
  ELSE Abs(player1.elo_rating - player2.elo_rating) <= expandedThreshold(player1, now)

\* The inner loop of findMatches: opponents are scanned from the head of
\* sortedPlayers, and the loop BREAKS at the first used opponent (the anchor
\* itself included) or when the group is full.
RECURSIVE GrowMatch(_, _, _, _, _, _, _, _)
GrowMatch(sorted, player, j, match, used, requiredPlayers, matchType, now) ==
  IF j > Len(sorted) THEN [match |-> match, used |-> used]
  ELSE LET opponent == sorted[j] IN
    IF opponent.user_id \in used \/ Len(match) >= requiredPlayers
    THEN [match |-> match, used |-> used]
    ELSE IF isGoodMatch(player, opponent, matchType, now)
    THEN GrowMatch(sorted, player, j + 1, Append(match, opponent),
                   used \cup {opponent.user_id}, requiredPlayers, matchType, now)
    ELSE GrowMatch(sorted, player, j + 1, match, used, requiredPlayers, matchType, now)

\* Mutant of ScanAnchors: an anchor that cannot fill its group keeps its claims.
RECURSIVE ScanAnchorsNoRelease(_, _, _, _, _, _, _)
ScanAnchorsNoRelease(sorted, i, matches, used, requiredPlayers, matchType, now) ==
  IF i > Len(sorted) THEN [matches |-> matches, usedPlayers |-> used]
  ELSE LET player == sorted[i] IN
    IF player.user_id \in used
    THEN ScanAnchorsNoRelease(sorted, i + 1, matches, used, requiredPlayers, matchType, now)
    ELSE LET g == GrowMatch(sorted, player, 1, <<player>>, used \cup {player.user_id},
                            requiredPlayers, matchType, now)
         IN IF Len(g.match) = requiredPlayers
            THEN ScanAnchorsNoRelease(sorted, i + 1, Append(matches, g.match), g.used,
                                      requiredPlayers, matchType, now)
            ELSE ScanAnchorsNoRelease(sorted, i + 1, matches, g.used,
                                      requiredPlayers, matchType, now)

\* The outer loop of findMatches over the anchors.
RECURSIVE ScanAnchors(_, _, _, _, _, _, _)
ScanAnchors(sorted, i, matches, used, requiredPlayers, matchType, now) ==
  IF i > Len(sorted) THEN [matches |-> matches, usedPlayers |-> used]
  ELSE LET player == sorted[i] IN
    IF player.user_id \in used
    THEN ScanAnchors(sorted, i + 1, matches, used, requiredPlayers, matchType, now)
    ELSE LET g == GrowMatch(sorted, player, 1, <<player>>, used \cup {player.user_id},
                            requiredPlayers, matchType, now)
         IN IF Len(g.match) = requiredPlayers
            THEN ScanAnchors(sorted, i + 1, Append(matches, g.match), g.used,
                             requiredPlayers, matchType, now)
            ELSE ScanAnchors(sorted, i + 1, matches, g.used \ UserIds(g.match),
                             requiredPlayers, matchType, now)

\* findMatches with the final usedPlayers set kept beside the returned groups.
findMatchesRun(players, requiredPlayers, matchType, now) ==
  ScanAnchors(SortByJoined(players), 1, <<>>, {}, requiredPlayers, matchType, now)

findMatches(players, requiredPlayers, matchType, now) ==
  findMatchesRun(players, requiredPlayers, matchType, now).matches



\* ------------------------------------------------ MatchmakingService queue
QueueUsers == {1, 2}
\* Two more users, who only appear as a pair matched before the model starts.
PairedUsers == {3, 4}
KeyUsers == QueueUsers \cup PairedUsers
QueueGames == {"tictactoe", "checkers"}
ScanIds == {1, 2}
JoinIds == {1, 2}

\* The clock advances in steps of one expansion interval.
TickMs == EXPANSION_INTERVAL

\* The join-queue requests the users send: <<userId, gameType, matchType>>.
JoinRequests ==
  {<<1, "tictactoe", "ranked">>, <<1, "checkers", "casual">>,
   <<2, "tictactoe", "ranked">>, <<2, "tictactoe", "casual">>}

\* user_statistics.elo_rating of each user.
UserElo(u) == IF u = 2 THEN 1150 ELSE 1000

\* redis.setEx(`socket:${userId}`, 300, socketId): the key lives 300 s.
SOCKET_TTL_S == 300

\* game_types.max_players || 2; every seeded game type has max_players 2.
REQUIRED_PLAYERS == 2

RowsOf(q, gameType, matchType) ==
  {r \in q : r.game_type = gameType /\ r.match_type = matchType}

\* DELETE FROM matchmaking_queue WHERE user_id = $1
deleteRows(q, userId) == {r \in q : r.user_id # userId}

\* removeFromAllQueues: the tables it may leave.  The DELETE removes the
\* user's rows, or it rejects; the catch only logs, so the caller goes on
\* with the rows still there.
removeFromAllQueues(q, userId) == {deleteRows(q, userId), q}

\* UNIQUE(user_id, game_type): whether an INSERT of (userId, gameType) violates it.
ViolatesUnique(q, userId, gameType) ==
  \E r \in q : r.user_id = userId /\ r.game_type = gameType

\* The orders in which SELECT ... ORDER BY joined_at ASC may return a set of rows.
Orderings(S) ==
  {s \in [1..Cardinality(S) -> S] :
     /\ \A i, j \in 1..Cardinality(S) : i # j => s[i] # s[j]
     /\ IsSortedByJoined(s)}

IdleScan ==
  [pc |-> "idle", game |-> "tictactoe", mtype |-> "casual", phase |-> "first",
   pending |-> <<>>, verified |-> <<>>, matches |-> <<>>, mi |-> 0, pi |-> 0,
   session |-> 0]

IdleJoin ==
  [pc |-> "idle", user |-> 0, game |-> "tictactoe", mtype |-> "casual",
   elo |-> 0, row |-> 0]

IdleQueue ==
  /\ clock = 0
  /\ queue = {}
  /\ nextRowId = 1
  /\ socketKeys = {}
  /\ keyTtl = [u \in KeyUsers |-> 0]
  /\ queueIntervals = {}
  /\ statusIntervals = {}
  /\ scans = [s \in ScanIds |-> IdleScan]
  /\ joins = [j \in JoinIds |-> IdleJoin]
  /\ committed = <<>>
  /\ matchFound = {}
  /\ scanRuns = 0
  /\ joinRuns = 0

\* -------------------------------------------------- GameServer / GameRoom
RoomUsers == {1, 2}
Sockets == {1, 2}
RoomGameTypes == {"tictactoe", "checkers"}
NoUser == 0
NoRoom == 0
NoSocket == 0

\* GameRoom.getMaxPlayersForGame: both branches of the switch return 2.
getMaxPlayersForGame(gameType) ==
  CASE gameType \in {"tictactoe", "checkers", "chess"} -> 2
    [] OTHER -> 2

\* TicTacToeGame (games/TicTacToeGame.ts) after the BaseGame constructor.
NoGame == [created |-> FALSE]
NewTicTacToe(playersArray) ==
  [created |-> TRUE,
   players |-> playersArray,
   board |-> [c \in 0..8 |-> "null"],
   moveCount |-> 0,
   currentPlayerIndex |-> 0,
   isFinished |-> FALSE,
   winner |-> NoUser]

\* new GameRoom(gameType, creatorId, creatorUsername); the creator's Player
\* has no socketId.
NewRoom(id, gameType, creatorId) ==
  [id |-> id,
   code |-> id,
   gameType |-> gameType,
   players |-> <<[id |-> creatorId, socketId |-> NoSocket]>>,
   maxPlayers |-> getMaxPlayersForGame(gameType),
   status |-> "waiting",
   game |-> NoGame]

RoomHas(room, userId) == \E i \in 1..Len(room.players) : room.players[i].id = userId

\* Mutant of addPlayer: a full room takes the player.
addPlayerToFull(room, userId, socketId) ==
  IF room.status # "waiting"
  THEN [ok |-> FALSE, room |-> room]
  ELSE IF RoomHas(room, userId)
  THEN [ok |-> TRUE,
        room |-> [room EXCEPT !.players = [i \in 1..Len(@) |->
                    IF @[i].id = userId THEN [@[i] EXCEPT !.socketId = socketId]
                    ELSE @[i]]]]
  ELSE [ok |-> TRUE,
        room |-> [room EXCEPT !.players =
                    Append(@, [id |-> userId, socketId |-> socketId])]]

\* GameRoom.addPlayer: [ok, room].
addPlayer(room, userId, socketId) ==
  IF Len(room.players) >= room.maxPlayers \/ room.status # "waiting"
  THEN [ok |-> FALSE, room |-> room]
  ELSE IF RoomHas(room, userId)
  THEN [ok |-> TRUE,
        room |-> [room EXCEPT !.players = [i \in 1..Len(@) |->
                    IF @[i].id = userId THEN [@[i] EXCEPT !.socketId = socketId]
                    ELSE @[i]]]]
  ELSE [ok |-> TRUE,
        room |-> [room EXCEPT !.players =
                    Append(@, [id |-> userId, socketId |-> socketId])]]

canStart(room) == Len(room.players) = room.maxPlayers /\ room.status = "waiting"

\* GameRoom.startGame; for a game type other than tictactoe the switch throws
\* before status is set, which leaves the room as it was.
startGame(room) ==
  IF ~canStart(room) THEN room
  ELSE IF room.gameType = "tictactoe"
  THEN [room EXCEPT !.game = NewTicTacToe(room.players), !.status = "playing"]
  ELSE room

IdleRooms ==
  /\ socketUser = [s \in Sockets |-> NoUser]
  /\ gameRooms = <<>>
  /\ playerRooms = [u \in RoomUsers |-> NoRoom]
  /\ deletedRooms = {}
  /\ roomTimers = {}

\* -------------------------------------------------------- EloRatingService
K_FACTOR == 32
MIN_RATING == 500
ELO_SCALE == 400

Outcomes == {"win", "loss", "draw", "forfeit", "disconnect", "timeout"}

\* Numbers that need not be integers are kept as exact fractions num / den
\* with den > 0.
Frac(n, d) == [num |-> n, den |-> d]

Pow10(k) == IF k = 0 THEN 1 ELSE IF k = 1 THEN 10 ELSE IF k = 2 THEN 100 ELSE 1000

\* Math.round: the nearest integer, halves rounded up.
Round(x) == (2 * x.num + x.den) \div (2 * x.den)

\* Mutant of atLeastMin: no minimum.
atLeastMinOff(rating) == rating

\* Math.max(500, rating)
atLeastMin(rating) == IF rating < MIN_RATING THEN MIN_RATING ELSE rating

\* getExpectedScore: 1 / (1 + 10^((opponentRating - playerRating) / 400)),
\* exact for the rating differences that are multiples of 400.
getExpectedScore(playerRating, opponentRating) ==
  LET k == (opponentRating - playerRating) \div ELO_SCALE IN
  IF k >= 0 THEN Frac(1, 1 + Pow10(k))
  ELSE Frac(Pow10(-k), Pow10(-k) + 1)

\* Mutant of getActualScore: the score is derived from the opponent's result.
getActualScoreFromOpponent(playerResult, opponentResult) ==
  IF opponentResult \in {"loss", "forfeit", "disconnect"} THEN Frac(1, 1)
  ELSE IF opponentResult = "win" THEN Frac(0, 1)
  ELSE IF opponentResult = "draw" THEN Frac(1, 2)
  ELSE Frac(0, 1)

getActualScore(playerResult, opponentResult) ==
  IF playerResult = "win" THEN Frac(1, 1)
  ELSE IF playerResult \in {"loss", "forfeit", "disconnect"} THEN Frac(0, 1)
  ELSE IF playerResult = "draw" THEN Frac(1, 2)
  ELSE Frac(0, 1)

\* Mutant of newRating1v1: the K factor is left out.
newRating1v1NoK(eloBefore, actualScore, expectedScore) ==
  Round(Frac(eloBefore * actualScore.den * expectedScore.den
               + (actualScore.num * expectedScore.den
                  - expectedScore.num * actualScore.den),
             actualScore.den * expectedScore.den))

\* Math.round(eloBefore + K_FACTOR * (actualScore - expectedScore))
newRating1v1(eloBefore, actualScore, expectedScore) ==
  Round(Frac(eloBefore * actualScore.den * expectedScore.den
               + K_FACTOR * (actualScore.num * expectedScore.den
                             - expectedScore.num * actualScore.den),
             actualScore.den * expectedScore.den))

\* calculateNewRatings: the Map returned, as a function of the userIds set.
calculateNewRatings(results) ==
  IF Len(results) = 2
  THEN LET player1 == results[1]
           player2 == results[2]
       IN (player1.userId :> atLeastMin(newRating1v1(player1.eloBefore,
              getActualScore(player1.result, player2.result),
              getExpectedScore(player1.eloBefore, player2.eloBefore))))
          @@ (player2.userId :> atLeastMin(newRating1v1(player2.eloBefore,
              getActualScore(player2.result, player1.result),
              getExpectedScore(player2.eloBefore, player1.eloBefore))))
  ELSE LET winners == {i \in 1..Len(results) : results[i].result = "win"}
           losers == {i \in 1..Len(results) :
                        results[i].result \in {"loss", "forfeit", "disconnect"}}
       IN [u \in {results[i].userId : i \in winners \cup losers} |->
             LET r == results[CHOOSE i \in winners \cup losers : results[i].userId = u] IN
             IF r.result = "win"
             THEN atLeastMin(r.eloBefore + Round(Frac(K_FACTOR * 6, 10)))
             ELSE atLeastMin(r.eloBefore - Round(Frac(K_FACTOR * 4, 10)))]

IdleElo ==
  /\ eloPc = "idle"
  /\ eloResults = <<>>
  /\ eloNewRatings = <<>>

\* ----------------------------------- EloRatingService.updatePlayerRatings
\* The rating ledger is the tables user_statistics and game_participants of
\* a PostgreSQL database at its default isolation level (READ COMMITTED):
\* a statement sees what is committed when it runs plus the writes of its
\* own transaction; a write to a row another open transaction has written
\* waits for that transaction to end.
LedgerUsers == {1, 2}
CallIds == {1, 2}
NewRatings == {984, 1016}

NoStats == [present |-> FALSE, elo_rating |-> 0, peak_rating |-> 0]
NoParticipant == [present |-> FALSE, elo_before |-> 0, elo_after |-> 0, elo_change |-> 0]
Untouched == [untouched |-> TRUE]

\* The user_statistics tables the calls may find.
InitialStats ==
  {[u \in LedgerUsers |-> IF u = 1 THEN first ELSE second] :
     first \in {[present |-> TRUE, elo_rating |-> DEFAULT_ELO, peak_rating |-> DEFAULT_ELO],
                [present |-> TRUE, elo_rating |-> DEFAULT_ELO, peak_rating |-> 1010]},
     second \in {NoStats,
                 [present |-> TRUE, elo_rating |-> DEFAULT_ELO, peak_rating |-> DEFAULT_ELO]}}

\* game_participants, by session and user; session 2 has no row for user 2.
InitialParticipants ==
  [s \in CallIds |-> [u \in LedgerUsers |->
     IF s = 2 /\ u = 2 THEN NoParticipant
     ELSE [present |-> TRUE, elo_before |-> DEFAULT_ELO, elo_after |-> DEFAULT_ELO,
           elo_change |-> 0]]]

\* The Maps passed as newRatings, as their entries in iteration order.
RatingMaps ==
  {<<[userId |-> u, newRating |-> r]>> : u \in LedgerUsers, r \in NewRatings}
  \cup {<<[userId |-> 1, newRating |-> r1], [userId |-> 2, newRating |-> r2]>> :
          r1 \in NewRatings, r2 \in NewRatings}
  \cup {<<[userId |-> 2, newRating |-> r2], [userId |-> 1, newRating |-> r1]>> :
          r1 \in NewRatings, r2 \in NewRatings}

Max(a, b) == IF a >= b THEN a ELSE b

\* A call of updatePlayerRatings: sw / pw are the rows of user_statistics /
\* game_participants its open transaction has written, currentStats and
\* eloBefore the rows its SELECTs returned; before is the ledger at the
\* call and disturbed says whether another call has committed since.
IdleCall ==
  [pc |-> "idle", sessionId |-> 0, newRatings |-> <<>>, i |-> 0,
   sw |-> [u \in LedgerUsers |-> Untouched],
   pw |-> [u \in LedgerUsers |-> Untouched],
   currentStats |-> NoStats, eloBefore |-> NoParticipant,
   before |-> <<>>, disturbed |-> FALSE]

InTransaction(call) ==
  call.pc \in {"selectStats", "writeStats", "selectParticipant", "writeParticipant",
               "commit", "rollback"}

\* What a statement of the transaction sees of one row.
Visible(committedRow, written) == IF written = Untouched THEN committedRow ELSE written

\* Mutant of queryInTransaction: the statement is not part of a transaction
\* and its write is committed at once.
queryAutocommit(committedTable, written, key, row) ==
  [table |-> [committedTable EXCEPT ![key] = row], written |-> written]

\* client.query of an INSERT or UPDATE between BEGIN and COMMIT: the row is
\* written in the transaction, the committed table is as it was.
queryInTransaction(committedTable, written, key, row) ==
  [table |-> committedTable, written |-> [written EXCEPT ![key] = row]]

\* COMMIT: the rows the transaction has written become the committed ones.
commitWrites(committedTable, written) ==
  [k \in DOMAIN committedTable |-> Visible(committedTable[k], written[k])]

\* The row the INSERT (no current row) or the UPDATE leaves.
statsRow(stats, newRating) ==
  IF ~stats.present
  THEN [present |-> TRUE, elo_rating |-> newRating, peak_rating |-> newRating]
  ELSE [present |-> TRUE, elo_rating |-> newRating,
        peak_rating |-> Max(stats.peak_rating, newRating)]

\* UPDATE game_participants SET elo_after, elo_change.
participantRow(eloBefore, newRating) ==
  [eloBefore EXCEPT !.elo_after = newRating,
                    !.elo_change = newRating - eloBefore.elo_before]

IdleLedger ==
  /\ user_statistics = [u \in LedgerUsers |-> NoStats]
  /\ game_participants = [s \in CallIds |-> [u \in LedgerUsers |-> NoParticipant]]
  /\ calls = [c \in CallIds |-> IdleCall]

\* ------------------------------------- games/BaseGame.ts, TicTacToeGame.ts
LegacyPlayers == <<[id |-> 1, socketId |-> 1], [id |-> 2, socketId |-> 2]>>
LegacyCallers == {1, 2, 3}
Positions == -1..9

\* players.findIndex(p => p.id === playerId), from 1; 0 when there is none.
findIndex(g, playerId) ==
  IF \E i \in 1..Len(g.players) : g.players[i].id = playerId
  THEN CHOOSE i \in 1..Len(g.players) :
         /\ g.players[i].id = playerId
         /\ \A k \in 1..(i - 1) : g.players[k].id # playerId
  ELSE 0

\* TicTacToeGame.isValidMove
isValidMove(g, playerId, position) ==
  /\ findIndex(g, playerId) # 0
  /\ findIndex(g, playerId) = g.currentPlayerIndex + 1
  /\ position >= 0 /\ position <= 8
  /\ g.board[position] = "null"

\* TicTacToeGame.applyMove
applyMove(g, playerId, position) ==
  [g EXCEPT !.board[position] = IF findIndex(g, playerId) = 1 THEN "X" ELSE "O",
            !.moveCount = @ + 1]

winPatterns ==
  << <<0, 1, 2>>, <<3, 4, 5>>, <<6, 7, 8>>,
     <<0, 3, 6>>, <<1, 4, 7>>, <<2, 5, 8>>,
     <<0, 4, 8>>, <<2, 4, 6>> >>

PatternWon(g, k) ==
  /\ g.board[winPatterns[k][1]] # "null"
  /\ g.board[winPatterns[k][1]] = g.board[winPatterns[k][2]]
  /\ g.board[winPatterns[k][1]] = g.board[winPatterns[k][3]]

\* TicTacToeGame.checkGameEnd: the first winning pattern, else a draw after
\* nine moves, else not finished.
checkGameEnd(g) ==
  IF \E k \in 1..Len(winPatterns) : PatternWon(g, k)
  THEN LET k == CHOOSE k \in 1..Len(winPatterns) :
                  PatternWon(g, k) /\ \A l \in 1..(k - 1) : ~PatternWon(g, l)
       IN [isFinished |-> TRUE,
           winner |-> g.players[IF g.board[winPatterns[k][1]] = "X" THEN 1 ELSE 2].id,
           type |-> "win"]
  ELSE IF g.moveCount = 9
  THEN [isFinished |-> TRUE, winner |-> NoUser, type |-> "draw"]
  ELSE [isFinished |-> FALSE, winner |-> NoUser, type |-> "none"]

switchPlayer(g) ==
  [g EXCEPT !.currentPlayerIndex = (g.currentPlayerIndex + 1) % Len(g.players)]

\* BaseGame.makeMove of games/BaseGame.ts: the game after the call.
legacyMakeMove(g, playerId, position) ==
  IF g.isFinished THEN g
  ELSE IF ~isValidMove(g, playerId, position) THEN g
  ELSE LET applied == applyMove(g, playerId, position)
           endResult == checkGameEnd(applied)
       IN IF endResult.isFinished
          THEN [applied EXCEPT !.isFinished = TRUE, !.winner = endResult.winner]
          ELSE switchPlayer(applied)

\* BaseGame.forfeit of games/BaseGame.ts: throws for an unknown player, else
\* sets isFinished and winner whatever they were.
forfeit(g, playerId) ==
  IF findIndex(g, playerId) = 0 THEN g
  ELSE [g EXCEPT !.isFinished = TRUE,
                 !.winner = IF \E i \in 1..Len(g.players) : g.players[i].id # playerId
                            THEN g.players[CHOOSE i \in 1..Len(g.players) :
                                   /\ g.players[i].id # playerId
                                   /\ \A k \in 1..(i - 1) : g.players[k].id = playerId].id
                            ELSE NoUser]

IdleLegacy == legacyGame = NewTicTacToe(LegacyPlayers)

IdleRest == IdleLegacy /\ IdleElo /\ IdleLedger

\* ------------------------------------------------------------- BaseGame
\* Player ids are 1..numPlayers (players[i] has id i + 1); 0 stands for
\* null / undefined; UnknownPlayer is an id that is in no game.
PlayerCounts == {2, 3}
MoveData == {1, 2}
NullPlayer == 0
UnknownPlayer == 1 + CHOOSE n \in PlayerCounts : \A m \in PlayerCounts : m <= n
PlayerIds(g) == 1..g.numPlayers

NoResult == [result |-> "none", winner |-> NullPlayer, totalMoves |-> 0]
NoEnd == [result |-> "none", winner |-> NullPlayer]

\* What an injected checkGameEnd may return: null, a win or a draw.
EndResults(g) ==
  {NoEnd} \cup [result : {"win"}, winner : PlayerIds(g)]
          \cup {[result |-> "draw", winner |-> NullPlayer]}

\* The object after its constructor.  moveTimer / gameTimer say whether the
\* timeout the field refers to is pending; staleMoveTimers counts pending move
\* timeouts the field no longer refers to; graceTimers are the pending
\* reconnection timeouts in arming order (all have the same 30 s delay).  The
\* reconnected flag of a grace timer is history: it records that its player has
\* reconnected since it was armed.  lastReturn / lastEvents are the outputs of
\* the call in progress (its return value and the events it emitted),
\* gameEndedCount the number of gameEnded events so far.
NewGame(n, mtl, gtl) ==
  [numPlayers |-> n,
   isConnected |-> [p \in 1..n |-> TRUE],
   currentPlayerIndex |-> 0,
   moves |-> <<>>,
   status |-> "waiting",
   result |-> NoResult,
   moveTimeLimit |-> mtl,
   gameTimeLimit |-> gtl,
   moveTimer |-> FALSE,
   staleMoveTimers |-> 0,
   gameTimer |-> FALSE,
   graceTimers |-> <<>>,
   lastReturn |-> "void",
   lastEvents |-> {},
   gameEndedCount |-> 0]

IdleGame == NewGame(2, FALSE, FALSE)

\* A call starts with no outputs; the object kept between calls holds none.
Called(g) == [g EXCEPT !.lastReturn = "void", !.lastEvents = {}]

Kept(g) == Called(g)

Return(g, v) == [g EXCEPT !.lastReturn = IF v THEN "true" ELSE "false"]

Emit(g, e) ==
  [g EXCEPT !.lastEvents = @ \cup {e},
            !.gameEndedCount = IF e = "gameEnded" THEN @ + 1 ELSE @]

getCurrentPlayer(g) == g.currentPlayerIndex + 1

\* Mutant of nextPlayer: the turn stays with the player who has just moved.
nextPlayerStays(g) == g

nextPlayer(g) ==
  [g EXCEPT !.currentPlayerIndex = (g.currentPlayerIndex + 1) % g.numPlayers]

startMoveTimer(g) ==
  IF ~g.moveTimeLimit THEN g
  ELSE [g EXCEPT !.staleMoveTimers = IF g.moveTimer THEN @ + 1 ELSE @,
                 !.moveTimer = TRUE]

\* Mutant of endGame: the status is left as it was.
endGameStaysPlaying(g, res, winner) ==
  IF g.status = "finished" THEN g
  ELSE Emit([g EXCEPT !.moveTimer = FALSE,
                      !.gameTimer = FALSE,
                      !.result = [result |-> res, winner |-> winner,
                                  totalMoves |-> Len(g.moves)]],
            "gameEnded")

endGame(g, res, winner) ==
  IF g.status = "finished" THEN g
  ELSE Emit([g EXCEPT !.moveTimer = FALSE,
                      !.gameTimer = FALSE,
                      !.status = "finished",
                      !.result = [result |-> res, winner |-> winner,
                                  totalMoves |-> Len(g.moves)]],
            "gameEnded")

start(g) ==
  IF g.status # "waiting" THEN g
  ELSE Emit(startMoveTimer([g EXCEPT !.status = "playing",
                                     !.gameTimer = IF g.gameTimeLimit THEN TRUE ELSE @]),
            "gameStarted")

\* Mutant of makeMove: the move is numbered moves.length, not moves.length + 1.
makeMoveNumberedFromZero(g, playerId, moveData, valid, applied, endResult) ==
  IF g.status # "playing" THEN Return(g, FALSE)
  ELSE IF getCurrentPlayer(g) # playerId THEN Return(g, FALSE)
  ELSE IF ~valid THEN Return(g, FALSE)
  ELSE LET cleared == [g EXCEPT !.moveTimer = FALSE] IN
    IF ~applied THEN Return(cleared, FALSE)
    ELSE LET move == [playerId |-> playerId, moveData |-> moveData,
                      moveNumber |-> Len(cleared.moves)]
             pushed == [cleared EXCEPT !.moves = Append(@, move)]
             after == IF endResult # NoEnd
                      THEN endGame(pushed, endResult.result, endResult.winner)
                      ELSE startMoveTimer(nextPlayer(pushed))
         IN Return(Emit(after, "moveMade"), TRUE)

\* Mutant of makeMove: the pending move timer is not cleared.
makeMoveKeepsTimer(g, playerId, moveData, valid, applied, endResult) ==
  IF g.status # "playing" THEN Return(g, FALSE)
  ELSE IF getCurrentPlayer(g) # playerId THEN Return(g, FALSE)
  ELSE IF ~valid THEN Return(g, FALSE)
  ELSE IF ~applied THEN Return(g, FALSE)
  ELSE LET move == [playerId |-> playerId, moveData |-> moveData,
                    moveNumber |-> Len(g.moves) + 1]
           pushed == [g EXCEPT !.moves = Append(@, move)]
           after == IF endResult # NoEnd
                    THEN endGame(pushed, endResult.result, endResult.winner)
                    ELSE startMoveTimer(nextPlayer(pushed))
       IN Return(Emit(after, "moveMade"), TRUE)

\* valid, applied and endResult are what the injected isValidMove, applyMove
\* and checkGameEnd answer for this call.
makeMove(g, playerId, moveData, valid, applied, endResult) ==
  IF g.status # "playing" THEN Return(g, FALSE)
  ELSE IF getCurrentPlayer(g) # playerId THEN Return(g, FALSE)
  ELSE IF ~valid THEN Return(g, FALSE)
  ELSE LET cleared == [g EXCEPT !.moveTimer = FALSE] IN
    IF ~applied THEN Return(cleared, FALSE)
    ELSE LET move == [playerId |-> playerId, moveData |-> moveData,
                      moveNumber |-> Len(cleared.moves) + 1]
             pushed == [cleared EXCEPT !.moves = Append(@, move)]
             after == IF endResult # NoEnd
                      THEN endGame(pushed, endResult.result, endResult.winner)
                      ELSE startMoveTimer(nextPlayer(pushed))
         IN Return(Emit(after, "moveMade"), TRUE)

playerDisconnected(g, playerId) ==
  IF playerId \notin PlayerIds(g) THEN g
  ELSE LET off == [g EXCEPT !.isConnected[playerId] = FALSE]
           armed == IF off.status = "playing"
                    THEN [off EXCEPT !.graceTimers =
                            Append(@, [player |-> playerId, reconnected |-> FALSE])]
                    ELSE off
       IN Emit(armed, "playerDisconnected")

playerReconnected(g, playerId) ==
  IF playerId \notin PlayerIds(g) THEN g
  ELSE Emit([g EXCEPT !.isConnected[playerId] = TRUE,
                      !.graceTimers = [i \in 1..Len(@) |->
                          IF @[i].player = playerId
                          THEN [@[i] EXCEPT !.reconnected = TRUE] ELSE @[i]]],
            "playerReconnected")

\* players.find(p => p.id !== playerId): the first player that is not playerId.
firstOther(g, playerId) ==
  IF playerId # 1 THEN 1 ELSE IF g.numPlayers >= 2 THEN 2 ELSE NullPlayer

\* Mutant of playerForfeit: the status is not looked at.
playerForfeitAnyStatus(g, playerId) ==
  IF playerId \notin PlayerIds(g) THEN g
  ELSE endGame(g, "forfeit", firstOther(g, playerId))

playerForfeit(g, playerId) ==
  IF g.status # "playing" THEN g
  ELSE IF playerId \notin PlayerIds(g) THEN g
  ELSE endGame(g, "forfeit", firstOther(g, playerId))

\* The callback of the timeout armed by startMoveTimer.
moveTimerCallback(g) == playerForfeit(g, getCurrentPlayer(g))

\* The callback of the timeout armed by start().
gameTimerCallback(g) == endGame(g, "timeout", NullPlayer)

\* Mutant of graceTimerCallback: the player's reachability is not looked at
\* again when the timeout fires.
graceTimerCallbackNoRecheck(g, player) ==
  IF g.status = "playing"
  THEN LET remainingPlayers == {p \in PlayerIds(g) : g.isConnected[p]} IN
       IF Cardinality(remainingPlayers) = 1
       THEN endGame(g, "disconnect", CHOOSE p \in remainingPlayers : TRUE)
       ELSE g
  ELSE g

\* The callback of the timeout armed by playerDisconnected for player.
graceTimerCallback(g, player) ==
  IF ~g.isConnected[player] /\ g.status = "playing"
  THEN LET remainingPlayers == {p \in PlayerIds(g) : g.isConnected[p]} IN
       IF Cardinality(remainingPlayers) = 1
       THEN endGame(g, "disconnect", CHOOSE p \in remainingPlayers : TRUE)
       ELSE g
  ELSE g

\* ------------------------------------------------------------- SpecGame
InitGame ==
  /\ game \in {NewGame(n, mtl, gtl) : n \in PlayerCounts, mtl \in BOOLEAN, gtl \in BOOLEAN}
  /\ IdleRooms
  /\ IdleQueue
  /\ IdleRest
  /\ fmPc = "idle"
  /\ fmPlayers = <<>>
  /\ fmRequired = 2
  /\ fmType = "casual"
  /\ fmNow = 0
  /\ fmResult = [matches |-> <<>>, usedPlayers |-> {}]

Callers(g) == PlayerIds(g) \cup {UnknownPlayer}

\* The answers of the three injected hooks to one makeMove call; a hook that
\* is not reached has no answer to vary.
UnaskedHooks == [valid |-> FALSE, applied |-> FALSE, endResult |-> NoEnd]

HookAnswers(g) ==
  {UnaskedHooks, [valid |-> TRUE, applied |-> FALSE, endResult |-> NoEnd]}
  \cup [valid : {TRUE}, applied : {TRUE}, endResult : EndResults(g)]

Start ==
  /\ game' = Kept(start(Called(game)))
  /\ UNCHANGED <<findVars, roomVars, queueVars, restVars>>

MakeMove ==
  \E playerId \in Callers(game), moveData \in MoveData, hooks \in HookAnswers(game) :
    /\ Len(game.moves) >= MaxMoves => ~hooks.valid
    /\ (game.status # "playing" \/ getCurrentPlayer(game) # playerId)
         => (hooks = UnaskedHooks /\ moveData = 1)
    /\ game' = Kept(makeMove(Called(game), playerId, moveData,
                             hooks.valid, hooks.applied, hooks.endResult))
    /\ UNCHANGED <<findVars, roomVars, queueVars, restVars>>

PlayerDisconnected ==
  \E playerId \in Callers(game) :
    /\ game.status = "playing" => Len(game.graceTimers) < MaxGrace
    /\ game' = Kept(playerDisconnected(Called(game), playerId))
    /\ UNCHANGED <<findVars, roomVars, queueVars, restVars>>

PlayerReconnected ==
  \E playerId \in Callers(game) :
    /\ game' = Kept(playerReconnected(Called(game), playerId))
    /\ UNCHANGED <<findVars, roomVars, queueVars, restVars>>

PlayerForfeit ==
  \E playerId \in Callers(game) :
    /\ game' = Kept(playerForfeit(Called(game), playerId))
    /\ UNCHANGED <<findVars, roomVars, queueVars, restVars>>

MoveTimerFires ==
  /\ game.moveTimer
  /\ game' = Kept(moveTimerCallback([Called(game) EXCEPT !.moveTimer = FALSE]))
  /\ UNCHANGED <<findVars, roomVars, queueVars, restVars>>

GameTimerFires ==
  /\ game.gameTimer
  /\ game' = Kept(gameTimerCallback([Called(game) EXCEPT !.gameTimer = FALSE]))
  /\ UNCHANGED <<findVars, roomVars, queueVars, restVars>>

GraceTimerFires ==
  /\ game.graceTimers # <<>>
  /\ game' = Kept(graceTimerCallback([Called(game) EXCEPT !.graceTimers = Tail(@)],
                                     Head(game.graceTimers).player))
  /\ UNCHANGED <<findVars, roomVars, queueVars, restVars>>

NextGame ==
  \/ MoveTimerFires
  \/ GameTimerFires
  \/ GraceTimerFires
  \/ Start
  \/ MakeMove
  \/ PlayerDisconnected
  \/ PlayerReconnected
  \/ PlayerForfeit

SpecGame == InitGame /\ [][NextGame]_vars

\* A timeout that is pending fires; what the players and the hooks do is
\* up to them.
SpecGameFair ==
  /\ SpecGame
  /\ WF_vars(MoveTimerFires)
  /\ WF_vars(GameTimerFires)
  /\ WF_vars(GraceTimerFires)

\* --------------------------------------------------- claims on BaseGame
IsPrefix(s, t) == Len(s) <= Len(t) /\ SubSeq(t, 1, Len(s)) = s

\* C7: the move log's moveNumber values are exactly 1, 2, ..., n in log order
\* in every reachable state, and every step keeps the moves already appended
\* (the old log is a prefix of the new one).
C7_MoveLogNumbered ==
  /\ [](\A i \in 1..Len(game.moves) : game.moves[i].moveNumber = i)
  /\ [][IsPrefix(game.moves, game'.moves)]_vars

\* C7 witness: a log of two accepted moves.
C7_Witness ==
  /\ Len(game.moves) = 2
  /\ game.moves[1].playerId # game.moves[2].playerId

\* The session state C8 names: move log, turn index, status, result, move timer.
SessionState(g) ==
  <<g.moves, g.currentPlayerIndex, g.status, g.result, g.moveTimer>>

\* C8 (as stated): whatever the caller, payload and hook answers, a makeMove
\* call that returns false leaves the session state unchanged, the armed move
\* timer included.
C8_RejectedMoveChangesNothing ==
  [][\A playerId \in Callers(game), moveData \in MoveData, hooks \in HookAnswers(game) :
       LET r == makeMove(Called(game), playerId, moveData,
                         hooks.valid, hooks.applied, hooks.endResult)
       IN (game' = Kept(r) /\ r.lastReturn = "false")
            => SessionState(game') = SessionState(game)]_vars

\* C9 (as stated): when the armed move timer fires in a running two-player
\* session, the session concludes with outcome timeout and the opponent of the
\* turn holder as winner, and a later move of the timed-out participant is
\* rejected and changes nothing.
C9_MoveTimeoutConcludes ==
  [][(MoveTimerFires /\ game.status = "playing" /\ game.numPlayers = 2) =>
       /\ game'.status = "finished"
       /\ game'.result.result = "timeout"
       /\ game'.result.winner = 3 - getCurrentPlayer(game)
       /\ \A moveData \in MoveData, hooks \in HookAnswers(game') :
            LET r == makeMove(Called(game'), getCurrentPlayer(game), moveData,
                              hooks.valid, hooks.applied, hooks.endResult)
            IN r.lastReturn = "false" /\ Kept(r) = game']_vars

\* C10 (as stated): a grace timer whose participant has reconnected since it
\* was armed never concludes the session when it fires, also when the
\* participant has disconnected again in the meantime.
C10_StaleGraceTimerHarmless ==
  [][(GraceTimerFires /\ Head(game.graceTimers).reconnected
        /\ game.status # "finished")
       => game'.status # "finished"]_vars

\* P has disconnected from the running session and its grace window is open:
\* P is unreachable and a grace timer armed for P since its last reconnection
\* is still pending.
InGrace(g, P) ==
  /\ g.status = "playing"
  /\ ~g.isConnected[P]
  /\ \E i \in 1..Len(g.graceTimers) :
       g.graceTimers[i].player = P /\ ~g.graceTimers[i].reconnected

\* The recorded result names P the loser by forfeit, timeout or disconnect.
NamesLoser(g, P) ==
  /\ g.status = "finished"
  /\ g.result.result \in {"forfeit", "timeout", "disconnect"}
  /\ g.result.winner \notin {P, NullPlayer}

\* The grace window of P runs out in this step: the timer that fires was
\* armed for P and P has not reconnected since.
GraceExpires(P) ==
  /\ GraceTimerFires
  /\ Head(game.graceTimers).player = P
  /\ ~Head(game.graceTimers).reconnected

\* C11 (as stated): while a participant of a running two-player session is
\* inside the grace window of a disconnect, no timer records a result naming
\* that participant the loser, so that the session is still running when the
\* participant reconnects inside the window.
C11_NoLossInsideGraceWindow ==
  [][\A P \in PlayerIds(game) :
       (/\ game.numPlayers = 2
        /\ InGrace(game, P)
        /\ MoveTimerFires \/ GameTimerFires \/ GraceTimerFires
        /\ ~GraceExpires(P))
         => ~NamesLoser(game', P)]_vars

\* The participants that are reachable.
Reachable(g) == {p \in PlayerIds(g) : g.isConnected[p]}

\* C12: playerDisconnected on a running session leaves it running with no
\* result; a grace timer that fires while its participant P is unreachable,
\* the session is running and exactly one participant is reachable concludes
\* the session with outcome disconnect and that participant as winner; in
\* every other case the firing changes nothing but the timer that fired.
C12_GraceTimerFiring ==
  [][/\ (PlayerDisconnected /\ game.status = "playing")
          => (game'.status = "playing" /\ game'.result = game.result)
     /\ GraceTimerFires =>
          LET P == Head(game.graceTimers).player
              fired == [game EXCEPT !.graceTimers = Tail(@)]
          IN IF /\ ~game.isConnected[P]
                /\ game.status = "playing"
                /\ Cardinality(Reachable(game)) = 1
             THEN /\ game'.status = "finished"
                  /\ game'.result.result = "disconnect"
                  /\ game'.result.winner \in Reachable(game)
                  /\ game'.isConnected = game.isConnected
                  /\ game'.moves = game.moves
                  /\ game'.currentPlayerIndex = game.currentPlayerIndex
             ELSE game' = fired]_vars

\* C12 witness: a session concluded by a grace timer, with the one reachable
\* participant as winner.
C12_Witness ==
  /\ game.status = "finished"
  /\ game.result.result = "disconnect"
  /\ game.result.winner \in Reachable(game)
  /\ Cardinality(Reachable(game)) = 1

\* C13: in every reachable state, playerForfeit(P) by a participant of a
\* running two-player session concludes it at once with outcome forfeit and
\* the other participant as winner; for an unknown participant or a session
\* that is not running the call changes nothing and emits nothing.
C13_ForfeitConcludes ==
  \A playerId \in Callers(game) :
    LET r == playerForfeit(Called(game), playerId) IN
    IF game.status = "playing" /\ playerId \in PlayerIds(game)
    THEN game.numPlayers = 2 =>
           /\ r.status = "finished"
           /\ r.result.result = "forfeit"
           /\ r.result.winner = 3 - playerId
           /\ r.lastEvents = {"gameEnded"}
    ELSE r = game

\* C13 witness: a two-player session without move timer that a forfeit call
\* has concluded.
C13_Witness ==
  /\ game.numPlayers = 2
  /\ ~game.moveTimeLimit
  /\ game.status = "finished"
  /\ game.result.result = "forfeit"
  /\ game.result.winner \in PlayerIds(game)

\* The session state C14 names: status, result, connectivity flags, turn
\* index and move log.
ConcludedState(g) ==
  <<g.status, g.result, g.isConnected, g.currentPlayerIndex, g.moves>>

\* C14 (as stated): once the session is concluded, a move-timer, game-timer
\* or grace-timer firing, a playerDisconnected call and a playerForfeit call
\* each leave the session state unchanged and emit no event.
C14_ConcludedIsInert ==
  [][game.status = "finished" =>
       /\ (MoveTimerFires \/ GameTimerFires \/ GraceTimerFires \/ PlayerForfeit)
            => ConcludedState(game') = ConcludedState(game)
       /\ \A playerId \in Callers(game) :
            LET r == playerDisconnected(Called(game), playerId) IN
            game' = Kept(r) =>
              /\ ConcludedState(game') = ConcludedState(game)
              /\ r.lastEvents = {}
       /\ \A playerId \in Callers(game) :
            playerForfeit(Called(game), playerId).lastEvents = {}
       /\ game.graceTimers # <<>> =>
            graceTimerCallback(Called(game), Head(game.graceTimers).player).lastEvents = {}
       /\ moveTimerCallback(Called(game)).lastEvents = {}
       /\ gameTimerCallback(Called(game)).lastEvents = {}]_vars

\* C15: over every sequence of moves, timer firings, disconnects, reconnects
\* and forfeits the result is set at most once and gameEnded is emitted at
\* most once: the session has a result exactly when it is finished, that is
\* exactly when gameEnded has been emitted once, and from then on status and
\* result never change.
C15_ResultSetOnce ==
  /\ [](/\ game.gameEndedCount <= 1
        /\ (game.status = "finished") <=> (game.gameEndedCount = 1)
        /\ (game.status = "finished") <=> (game.result.result # "none"))
  /\ [][game.status = "finished"
          => (game'.status = "finished" /\ game'.result = game.result)]_vars

\* C15 witness: a concluded session on which a disconnect was handled later,
\* as the unreachable winner shows, and on which a grace timer is yet to fire.
C15_Witness ==
  /\ game.status = "finished"
  /\ game.gameEndedCount = 1
  /\ game.result.winner \in PlayerIds(game)
  /\ ~game.isConnected[game.result.winner]
  /\ game.result.result = "disconnect"
  /\ game.graceTimers # <<>>

\* C27: in a running session with n participants the accepted moves are made
\* in fixed cyclic order: the k-th move of the log is by
\* participants[(k - 1) mod n], the turn index advances by one (mod n) after
\* each accepted non-concluding move, and disconnect, reconnect and rejected
\* moves never change it.
C27_FixedRotation ==
  LET n == game.numPlayers IN
  /\ \A k \in 1..Len(game.moves) : game.moves[k].playerId = ((k - 1) % n) + 1
  /\ game.status = "playing" => game.currentPlayerIndex = Len(game.moves) % n
  /\ \A playerId \in Callers(game) :
       /\ playerDisconnected(Called(game), playerId).currentPlayerIndex
            = game.currentPlayerIndex
       /\ playerReconnected(Called(game), playerId).currentPlayerIndex
            = game.currentPlayerIndex
       /\ \A moveData \in MoveData, hooks \in HookAnswers(game) :
            LET after == makeMove(Called(game), playerId, moveData, hooks.valid,
                                  hooks.applied, hooks.endResult)
            IN /\ after.lastReturn = "false"
                    => after.currentPlayerIndex = game.currentPlayerIndex
               /\ (after.lastReturn = "true" /\ after.status = "playing")
                    => after.currentPlayerIndex = (game.currentPlayerIndex + 1) % n

\* Two moves were accepted in a running two-player session and the turn is
\* back with the first participant.
C27_Witness ==
  /\ game.status = "playing"
  /\ game.numPlayers = 2
  /\ Len(game.moves) = 2
  /\ game.currentPlayerIndex = 0

\* The move timeouts that are pending.
ArmedMoveTimers(g) == (IF g.moveTimer THEN 1 ELSE 0) + g.staleMoveTimers

\* C28: at most one move timer is armed per session at any time; an accepted
\* move cancels the timer armed for that turn before a new one is armed, and
\* once the session is concluded no move timer and no game-duration timer
\* remains armed.
C28_TimersCancelled ==
  /\ ArmedMoveTimers(game) <= 1
  /\ game.status = "finished" => (ArmedMoveTimers(game) = 0 /\ ~game.gameTimer)
  /\ \A playerId \in Callers(game), moveData \in MoveData, hooks \in HookAnswers(game) :
       LET after == makeMove(Called(game), playerId, moveData, hooks.valid,
                             hooks.applied, hooks.endResult)
       IN after.lastReturn = "true" =>
            /\ after.staleMoveTimers = game.staleMoveTimers
            /\ ArmedMoveTimers(after) <= 1

\* A session with both time limits concluded after an accepted move had
\* re-armed the move timer: both timers had been armed and are cancelled.
C28_Witness ==
  /\ game.status = "finished"
  /\ game.moveTimeLimit
  /\ game.gameTimeLimit
  /\ Len(game.moves) = 2
  /\ game.result.result = "forfeit"

\* C34: if a running two-player session has a participant P who
\* disconnects and never reconnects while the opponent Q is reachable from
\* some point on, the session eventually concludes: from a state in which
\* the session is running with P connected, if from some point on P is
\* disconnected and Q connected for good, the status becomes 'finished'.
C34_AbandonedSessionConcludes ==
  \A P, Q \in 1..2 :
    P # Q =>
      []((game.numPlayers = 2 /\ game.status = "playing" /\ game.isConnected[P])
           => (<>[](~game.isConnected[P] /\ game.isConnected[Q])
                 => <>(game.status = "finished")))

\* The step in which the session concludes: endGame sets status 'finished'.
Concludes == game.status # "finished" /\ game'.status = "finished"

\* The RatingEngine is invoked: a calculateNewRatings or updatePlayerRatings
\* call is made, or a rating record changes.
RatingEngineInvoked == eloVars' # eloVars \/ ledgerVars' # ledgerVars

\* C23: when a session concludes, the rating engine is invoked for it if and
\* only if its matchType is ranked; a casual session never changes a rating
\* record.  The BaseGame object holds no matchType, so the statement is made
\* for either matchType the session may have been created with.
C23_RatedIffRanked ==
  [][Concludes =>
       \A matchType \in MatchTypes :
         (matchType = "ranked") <=> RatingEngineInvoked]_vars

\* ------------------------------------------------------------- SpecRoom
\* socket.on('authenticate'): a valid token sets socket.data.user.
Authenticate ==
  \E s \in Sockets, u \in RoomUsers :
    /\ socketUser' = [socketUser EXCEPT ![s] = u]
    /\ UNCHANGED <<gameRooms, playerRooms, deletedRooms, roomTimers>>
    /\ UNCHANGED <<findVars, game, queueVars, restVars>>

\* socket.on('create-room')
CreateRoom ==
  \E s \in DOMAIN socketUser, gameType \in RoomGameTypes :
    /\ Len(gameRooms) < MaxRooms
    /\ IF socketUser[s] = NoUser
       THEN UNCHANGED <<gameRooms, playerRooms>>
       ELSE LET room == NewRoom(Len(gameRooms) + 1, gameType, socketUser[s]) IN
            /\ gameRooms' = Append(gameRooms, room)
            /\ playerRooms' = [playerRooms EXCEPT ![socketUser[s]] = room.id]
    /\ UNCHANGED <<socketUser, deletedRooms, roomTimers>>
    /\ UNCHANGED <<findVars, game, queueVars, restVars>>

\* GameServer.findRoomByCode: the first room with that code, NoRoom if none.
findRoomByCode(code) ==
  LET inMap == {i \in 1..Len(gameRooms) : i \notin deletedRooms} IN
  IF \E i \in inMap : gameRooms[i].code = code
  THEN CHOOSE i \in inMap :
         /\ gameRooms[i].code = code
         /\ \A j \in inMap : j < i => gameRooms[j].code # code
  ELSE NoRoom

\* socket.on('join-room')
JoinRoom ==
  \E s \in DOMAIN socketUser, roomCode \in 1..(MaxRooms + 1) :
    /\ LET r == findRoomByCode(roomCode) IN
       IF socketUser[s] = NoUser \/ r = NoRoom
       THEN UNCHANGED <<gameRooms, playerRooms>>
       ELSE LET added == addPlayer(gameRooms[r], socketUser[s], s) IN
            IF ~added.ok
            THEN UNCHANGED <<gameRooms, playerRooms>>
            ELSE /\ playerRooms' = [playerRooms EXCEPT ![socketUser[s]] = gameRooms[r].id]
                 /\ gameRooms' = [gameRooms EXCEPT ![r] =
                                    IF canStart(added.room) THEN startGame(added.room)
                                    ELSE added.room]
    /\ UNCHANGED <<socketUser, deletedRooms, roomTimers>>
    /\ UNCHANGED <<findVars, game, queueVars, restVars>>

\* The move positions the clients send: a column for X, two cells for O,
\* and one position off the board.
RoomMoves == {0, 1, 3, 4, 6, 9}

\* GameRoom.isValidMove
roomIsValidMove(room, userId, position) ==
  /\ room.game.created
  /\ room.status = "playing"
  /\ isValidMove(room.game, userId, position)

\* GameRoom.processMove: the room after the call; result.gameEnd.isFinished
\* is the game's isFinished after a move that was made.
processMove(room, userId, position) ==
  LET after == legacyMakeMove(room.game, userId, position) IN
  [room EXCEPT !.game = after,
               !.status = IF after.isFinished THEN "finished" ELSE @]

\* Mutant of the clean-up: the entries of the room's players are deleted,
\* wherever they point.
cleanUpByMembership(pr, room) ==
  [u \in DOMAIN pr |-> IF RoomHas(room, u) THEN NoRoom ELSE pr[u]]

\* The loop of the clean-up timer over playerRooms: the entries that point
\* to the room are deleted.
cleanUp(pr, room) ==
  [u \in DOMAIN pr |-> IF pr[u] = room.id THEN NoRoom ELSE pr[u]]

\* socket.on('make-move'), with handleGameEnd arming the clean-up timer when
\* the move ended the game.
RoomMakeMove ==
  \E s \in DOMAIN socketUser, position \in RoomMoves :
    /\ LET userId == socketUser[s]
           roomId == IF userId = NoUser THEN NoRoom ELSE playerRooms[userId]
       IN IF userId = NoUser \/ roomId = NoRoom \/ roomId \in deletedRooms
          THEN UNCHANGED <<gameRooms, roomTimers>>
          ELSE IF ~roomIsValidMove(gameRooms[roomId], userId, position)
          THEN UNCHANGED <<gameRooms, roomTimers>>
          ELSE LET room == processMove(gameRooms[roomId], userId, position) IN
               /\ gameRooms' = [gameRooms EXCEPT ![roomId] = room]
               /\ roomTimers' = IF room.game.isFinished
                                THEN roomTimers \cup {roomId} ELSE roomTimers
    /\ UNCHANGED <<socketUser, playerRooms, deletedRooms>>
    /\ UNCHANGED <<findVars, game, queueVars, restVars>>

\* The 30 s timer of handleGameEnd fires.
CleanUpTimerFires ==
  \E roomId \in roomTimers :
    /\ deletedRooms' = deletedRooms \cup {roomId}
    /\ playerRooms' = cleanUp(playerRooms, gameRooms[roomId])
    /\ roomTimers' = roomTimers \ {roomId}
    /\ UNCHANGED <<socketUser, gameRooms>>
    /\ UNCHANGED <<findVars, game, queueVars, restVars>>

NextRoom ==
  \/ Authenticate
  \/ CreateRoom
  \/ JoinRoom

InitRoom ==
  /\ IdleRooms
  /\ IdleQueue
  /\ IdleRest
  /\ game = IdleGame
  /\ fmPc = "idle"
  /\ fmPlayers = <<>>
  /\ fmRequired = 2
  /\ fmType = "casual"
  /\ fmNow = 0
  /\ fmResult = [matches |-> <<>>, usedPlayers |-> {}]

SpecRoom == InitRoom /\ [][NextRoom]_vars

\* The server once the connected sockets have authenticated, socket s as
\* user s: the rooms are created, joined, played to their end and cleaned up.
NextPlay ==
  \/ CreateRoom
  \/ JoinRoom
  \/ RoomMakeMove
  \/ CleanUpTimerFires

\* Two sockets and no room yet.
EmptyHouse ==
  /\ socketUser = [s \in Sockets |-> s]
  /\ gameRooms = <<>>
  /\ playerRooms = [u \in RoomUsers |-> NoRoom]
  /\ deletedRooms = {}
  /\ roomTimers = {}

\* A third socket has connected, and users 1 and 2 have created the checkers
\* rooms, in turn: more users than a room takes are there to join.
CrowdCreator(i) == ((i - 1) % 2) + 1
CrowdedHouse ==
  /\ socketUser = [s \in Sockets \cup {3} |-> s]
  /\ gameRooms = [i \in 1..MaxRooms |-> NewRoom(i, "checkers", CrowdCreator(i))]
  /\ playerRooms = [u \in RoomUsers \cup {3} |->
                      IF \E i \in 1..MaxRooms : CrowdCreator(i) = u
                      THEN CHOOSE i \in 1..MaxRooms :
                             /\ CrowdCreator(i) = u
                             /\ \A j \in 1..MaxRooms : CrowdCreator(j) = u => j <= i
                      ELSE NoRoom]
  /\ deletedRooms = {}
  /\ roomTimers = {}

InitPlay ==
  /\ EmptyHouse \/ CrowdedHouse
  /\ IdleQueue
  /\ IdleRest
  /\ game = IdleGame
  /\ fmPc = "idle"
  /\ fmPlayers = <<>>
  /\ fmRequired = 2
  /\ fmType = "casual"
  /\ fmNow = 0
  /\ fmResult = [matches |-> <<>>, usedPlayers |-> {}]

SpecPlay == InitPlay /\ [][NextPlay]_vars

\* ----------------------------------------------------- claims on the rooms
OpenRoomsOf(u) ==
  {r \in 1..Len(gameRooms) : RoomHas(gameRooms[r], u) /\ gameRooms[r].status # "finished"}

\* C6 (as stated): in every reachable state no participant is a member of two
\* sessions that are both open (waiting or playing, not concluded).
C6_OneOpenSessionPerParticipant ==
  \A u \in RoomUsers : Cardinality(OpenRoomsOf(u)) <= 1

\* C33: a concluded room stays in gameRooms until its retention timer
\* (30 s after conclusion) fires; when it fires the room and exactly the
\* playerRooms entries that point to it are removed, and the entries of
\* participants who have since entered another room are left untouched.
C33_RetainedThenCleanedUp ==
  /\ [](\A r \in 1..Len(gameRooms) :
          /\ (gameRooms[r].status = "finished" /\ r \notin deletedRooms)
               => r \in roomTimers
          /\ r \in roomTimers => r \notin deletedRooms)
  /\ [][\A r \in 1..Len(gameRooms) :
          /\ (r \in deletedRooms' /\ r \notin deletedRooms)
               => (r \in roomTimers /\ r \notin roomTimers')
          /\ (r \in roomTimers /\ r \notin roomTimers')
               => /\ r \in deletedRooms'
                  /\ \A u \in DOMAIN playerRooms :
                       playerRooms'[u] =
                         IF playerRooms[u] = r THEN NoRoom ELSE playerRooms[u]]_vars

\* A room was cleaned up after one of its participants had entered
\* another room, and that participant's entry still points there.
C33_Witness ==
  \E r \in deletedRooms, u \in DOMAIN playerRooms :
    /\ RoomHas(gameRooms[r], u)
    /\ playerRooms[u] # NoRoom
    /\ playerRooms[u] # r

StatusRank(status) ==
  CASE status = "waiting" -> 0
    [] status = "playing" -> 1
    [] status = "finished" -> 2

\* C39: a room never holds more than maxPlayers players, its game is
\* created only when it holds exactly maxPlayers players while waiting, and
\* its status only moves forward waiting -> playing -> finished, with moves
\* accepted only while playing.
C39_RoomLifecycle ==
  /\ [](\A r \in 1..Len(gameRooms) :
          /\ Len(gameRooms[r].players) <= gameRooms[r].maxPlayers
          /\ gameRooms[r].game.created
               => /\ Len(gameRooms[r].players) = gameRooms[r].maxPlayers
                  /\ gameRooms[r].status # "waiting")
  /\ [][\A r \in 1..Len(gameRooms) :
          LET before == gameRooms[r]
              after == gameRooms'[r]
          IN /\ StatusRank(before.status) <= StatusRank(after.status)
             /\ StatusRank(after.status) <= StatusRank(before.status) + 1
             /\ (~before.game.created /\ after.game.created)
                  => /\ before.status = "waiting"
                     /\ after.status = "playing"
                     /\ Len(after.players) = after.maxPlayers
             /\ (before.game.created /\ after.game # before.game)
                  => before.status = "playing"]_vars

\* A room went through all three statuses: its game was played to the end.
C39_Witness ==
  \E r \in 1..Len(gameRooms) :
    /\ gameRooms[r].status = "finished"
    /\ gameRooms[r].game.isFinished
    /\ gameRooms[r].game.moveCount >= 5

\* ------------------------------------------------------------- SpecFind
Entry(u, e, t) == [user_id |-> u, elo_rating |-> e, joined_at |-> t]

\* Snapshots of n entrants with distinct ids, in the ORDER BY joined_at ASC
\* order getQueuedPlayers returns them in.
Snapshots(n) ==
  {s \in [1..n -> [user_id : 1..n, elo_rating : EloValues, joined_at : JoinTimes]] :
     /\ \A i \in 1..n : s[i].user_id = i
     /\ IsSortedByJoined(s)}

InitFind ==
  /\ game = IdleGame
  /\ IdleRooms
  /\ IdleQueue
  /\ IdleRest
  /\ fmPc = "input"
  /\ \E n \in 2..MaxFind : fmPlayers \in Snapshots(n)
  /\ fmRequired \in 2..MaxRequired
  /\ fmType \in MatchTypes
  /\ fmNow \in ScanTimes
  /\ fmResult = [matches |-> <<>>, usedPlayers |-> {}]

\* processQueue calls findMatches only with queuedPlayers.length >= requiredPlayers.
CallFindMatches ==
  /\ fmPc = "input"
  /\ Len(fmPlayers) >= fmRequired
  /\ fmResult' = findMatchesRun(fmPlayers, fmRequired, fmType, fmNow)
  /\ fmPc' = "done"
  /\ UNCHANGED <<fmPlayers, fmRequired, fmType, fmNow, game, roomVars, queueVars, restVars>>

NextFind == CallFindMatches

SpecFind == InitFind /\ [][NextFind]_vars

\* ------------------------------------------------- claims on findMatches
GroupIds(g) == {g[k].user_id : k \in 1..Len(g)}

\* C3 (as stated): in a ranked two-player partition holding the waiting entrant
\* A and a just-joined entrant C whose skill gap to A is within A's expanded
\* threshold, the scan commits the pair {A, C}.
C3_WaitingAnchorPairs ==
  (/\ fmPc = "done" /\ fmType = "ranked" /\ fmRequired = 2 /\ Len(fmPlayers) = 2
   /\ fmPlayers[2].joined_at = fmNow
   /\ Abs(fmPlayers[1].elo_rating - fmPlayers[2].elo_rating)
        <= expandedThreshold(fmPlayers[1], fmNow))
  => \E k \in 1..Len(fmResult.matches) : GroupIds(fmResult.matches[k]) = {1, 2}

\* C4: every group findMatches returns has exactly requiredPlayers members, no
\* entrant appears twice in a group or in two groups, every member comes from
\* the snapshot, and the claims of anchors that could not fill a group are
\* released (usedPlayers ends as exactly the members of the returned groups).
C4_ExactDisjointGroups ==
  fmPc = "done" =>
    LET ms == fmResult.matches IN
    /\ \A k \in 1..Len(ms) :
         /\ Len(ms[k]) = fmRequired
         /\ Cardinality(GroupIds(ms[k])) = fmRequired
         /\ SeqToSet(ms[k]) \subseteq SeqToSet(fmPlayers)
    /\ \A k, l \in 1..Len(ms) : k # l => GroupIds(ms[k]) \cap GroupIds(ms[l]) = {}
    /\ fmResult.usedPlayers = UNION {GroupIds(ms[k]) : k \in 1..Len(ms)}

\* C4 witness: one ranked call returned two groups of two; the entrant at the
\* head yielded no group as anchor, was released, and is a member of the
\* group of a later anchor.
C4_Witness ==
  /\ fmPc = "done"
  /\ Len(fmResult.matches) = 2
  /\ fmRequired = 2
  /\ fmType = "ranked"

\* The reference oldest-first greedy of the pairing algorithm: the anchor's
\* group is grown over ALL remaining unclaimed entrants in ascending
\* joined_at order (a claimed entrant is passed over, it does not end the
\* scan), until requiredPlayers is reached.
RECURSIVE ReferenceGrow(_, _, _, _, _, _, _, _)
ReferenceGrow(sorted, anchor, j, group, claimed, requiredPlayers, matchType, now) ==
  IF j > Len(sorted) \/ Len(group) >= requiredPlayers
  THEN [group |-> group, claimed |-> claimed]
  ELSE LET candidate == sorted[j] IN
    IF candidate.user_id \notin claimed
       /\ isGoodMatch(anchor, candidate, matchType, now)
    THEN ReferenceGrow(sorted, anchor, j + 1, Append(group, candidate),
                       claimed \cup {candidate.user_id}, requiredPlayers, matchType, now)
    ELSE ReferenceGrow(sorted, anchor, j + 1, group, claimed, requiredPlayers,
                       matchType, now)

RECURSIVE ReferenceAnchors(_, _, _, _, _, _, _)
ReferenceAnchors(sorted, i, groups, claimed, requiredPlayers, matchType, now) ==
  IF i > Len(sorted) THEN groups
  ELSE LET anchor == sorted[i] IN
    IF anchor.user_id \in claimed
    THEN ReferenceAnchors(sorted, i + 1, groups, claimed, requiredPlayers, matchType, now)
    ELSE LET g == ReferenceGrow(sorted, anchor, 1, <<anchor>>,
                                claimed \cup {anchor.user_id}, requiredPlayers,
                                matchType, now)
         IN IF Len(g.group) = requiredPlayers
            THEN ReferenceAnchors(sorted, i + 1, Append(groups, g.group), g.claimed,
                                  requiredPlayers, matchType, now)
            ELSE ReferenceAnchors(sorted, i + 1, groups, claimed, requiredPlayers,
                                  matchType, now)

referenceGreedy(players, requiredPlayers, matchType, now) ==
  ReferenceAnchors(SortByJoined(players), 1, <<>>, {}, requiredPlayers, matchType, now)

\* C25: findMatches returns the same groups, in the same order and member
\* order, as the reference oldest-first greedy.
C25_SameAsReferenceGreedy ==
  fmPc = "done" =>
    fmResult.matches = referenceGreedy(fmPlayers, fmRequired, fmType, fmNow)

\* The arrays a SELECT ... ORDER BY joined_at ASC may return for the entrant
\* set of snapshot s: its rearrangements that are in ascending joined_at
\* order (rows with equal joined_at come in any order).
SameEntrantSet(s) ==
  {t \in [1..Len(s) -> SeqToSet(s)] : SeqToSet(t) = SeqToSet(s) /\ IsSortedByJoined(t)}

\* The groups as sets of sets of members.
GroupSets(ms) == {GroupIds(ms[k]) : k \in 1..Len(ms)}

\* C26: pairing is deterministic: two runs of findMatches on the same entrant
\* set (ids, ratings, joinTimestamps) at the same current time return
\* identical groups.
C26_DeterministicPairing ==
  fmPc = "done" =>
    \A t \in SameEntrantSet(fmPlayers) :
      GroupSets(findMatches(t, fmRequired, fmType, fmNow)) = GroupSets(fmResult.matches)

\* --------------------------------------------------------------- SpecQueue
\* The matchmaking queue: addToQueue, the leave-queue / disconnect handlers
\* and processQueue, each advancing from one await to the next, so that the
\* calls in progress interleave exactly at their awaits.
nonQueueVars == <<findVars, game, roomVars, restVars>>

Partition(gameType, matchType) == <<gameType, matchType>>

\* createMatch: session_id is session_<Date.now()>.
createMatch(players, gameType, matchType, t) ==
  [session_id |-> t, players |-> players, gameType |-> gameType,
   matchType |-> matchType]

\* Time passes; a socket key whose 300 s have run out is gone.
Tick ==
  /\ clock < MaxTicks * TickMs
  /\ clock' = clock + TickMs
  /\ socketKeys' = {u \in socketKeys : keyTtl[u] > clock'}
  /\ UNCHANGED <<queue, nextRowId, queueIntervals, statusIntervals,
                 scans, joins, committed, matchFound, scanRuns, joinRuns>>
  /\ UNCHANGED keyTtl
  /\ UNCHANGED nonQueueVars

\* join-queue received: addToQueue is called and awaits getUserStats.
JoinStart(j) ==
  /\ joins[j].pc = "idle"
  /\ \A k \in JoinIds : k < j => joins[k].pc # "idle"
  /\ joinRuns < MaxJoinRuns
  /\ \E req \in JoinRequests :
       LET userId == req[1]
           gameType == req[2]
           matchType == req[3]
       IN joins' = [joins EXCEPT ![j] =
            [pc |-> "delete", user |-> userId, game |-> gameType, mtype |-> matchType,
             elo |-> IF matchType = "ranked" THEN UserElo(userId) ELSE DEFAULT_ELO,
             row |-> 0]]
  /\ joinRuns' = joinRuns + 1
  /\ UNCHANGED <<clock, queue, nextRowId, socketKeys, queueIntervals,
                 statusIntervals, scans, committed, matchFound, scanRuns>>
  /\ UNCHANGED keyTtl
  /\ UNCHANGED nonQueueVars

\* await this.removeFromAllQueues(userId)
JoinDelete(j) ==
  /\ joins[j].pc = "delete"
  /\ queue' \in removeFromAllQueues(queue, joins[j].user)
  /\ joins' = [joins EXCEPT ![j].pc = "insert"]
  /\ UNCHANGED <<clock, nextRowId, socketKeys, queueIntervals, statusIntervals,
                 scans, committed, matchFound, scanRuns, joinRuns>>
  /\ UNCHANGED keyTtl
  /\ UNCHANGED nonQueueVars

\* The INSERT; it raises when UNIQUE(user_id, game_type) is violated, and
\* addToQueue rethrows, so that the handler arms nothing.
JoinInsert(j) ==
  /\ joins[j].pc = "insert"
  /\ IF ViolatesUnique(queue, joins[j].user, joins[j].game)
     THEN /\ joins' = [joins EXCEPT ![j] = IdleJoin]
          /\ UNCHANGED <<queue, nextRowId>>
     ELSE /\ queue' = queue \cup
                {[id |-> nextRowId, user_id |-> joins[j].user,
                  game_type |-> joins[j].game, match_type |-> joins[j].mtype,
                  elo_rating |-> joins[j].elo, joined_at |-> clock]}
          /\ nextRowId' = nextRowId + 1
          /\ joins' = [joins EXCEPT ![j].pc = "setex", ![j].row = nextRowId]
  /\ UNCHANGED <<clock, socketKeys, queueIntervals, statusIntervals, scans,
                 committed, matchFound, scanRuns, joinRuns>>
  /\ UNCHANGED keyTtl
  /\ UNCHANGED nonQueueVars

\* redis.setEx of the socket key, the partition's interval armed if it has
\* none, addToQueue returns, and the handler arms the socket's status
\* interval, overwriting socket.data.queueUpdateInterval.
JoinSetEx(j) ==
  /\ joins[j].pc = "setex"
  /\ socketKeys' = socketKeys \cup {joins[j].user}
  /\ queueIntervals' = queueIntervals \cup {Partition(joins[j].game, joins[j].mtype)}
  /\ statusIntervals' =
       {[i EXCEPT !.current = FALSE] : i \in {x \in statusIntervals : x.user = joins[j].user}}
       \cup {x \in statusIntervals : x.user # joins[j].user}
       \cup {[user |-> joins[j].user, game |-> joins[j].game,
              mtype |-> joins[j].mtype, current |-> TRUE]}
  /\ joins' = [joins EXCEPT ![j] = IdleJoin]
  /\ keyTtl' = [keyTtl EXCEPT ![joins[j].user] = clock + SOCKET_TTL_S * 1000]
  /\ UNCHANGED <<clock, queue, nextRowId, scans, committed, matchFound,
                 scanRuns, joinRuns>>
  /\ UNCHANGED nonQueueVars

\* leave-queue or disconnect: the user's rows are deleted and the interval
\* held in socket.data.queueUpdateInterval is cleared.
Leave(userId) ==
  /\ queue' \in removeFromAllQueues(queue, userId)
  /\ statusIntervals' = {x \in statusIntervals : ~(x.user = userId /\ x.current)}
  /\ UNCHANGED <<clock, nextRowId, socketKeys, queueIntervals, scans, joins,
                 committed, matchFound, scanRuns, joinRuns, keyTtl>>
  /\ UNCHANGED nonQueueVars

\* What processQueue does, without a further await, once getQueuedPlayers
\* has returned sc.verified.
AfterSnapshot(s, sc) ==
  IF sc.phase = "first"
  THEN LET matches == IF Len(sc.verified) < REQUIRED_PLAYERS THEN <<>>
                      ELSE findMatches(sc.verified, REQUIRED_PLAYERS, sc.mtype, clock)
       IN IF matches = <<>>
          THEN /\ scans' = [scans EXCEPT ![s] = IdleScan]
               /\ UNCHANGED <<committed, queueIntervals>>
          ELSE /\ committed' = Append(committed,
                     createMatch(matches[1], sc.game, sc.mtype, clock))
               /\ scans' = [scans EXCEPT ![s] =
                     [sc EXCEPT !.pc = "notify", !.matches = matches, !.mi = 1,
                                !.pi = 1, !.session = Len(committed) + 1]]
               /\ UNCHANGED queueIntervals
  ELSE /\ queueIntervals' =
            IF Len(sc.verified) < REQUIRED_PLAYERS
            THEN queueIntervals \ {Partition(sc.game, sc.mtype)}
            ELSE queueIntervals
       /\ scans' = [scans EXCEPT ![s] = IdleScan]
       /\ UNCHANGED committed

\* getQueuedPlayers goes on with its next row, or has returned.
NextRow(s, sc) ==
  IF sc.pending = <<>>
  THEN AfterSnapshot(s, sc)
  ELSE /\ scans' = [scans EXCEPT ![s] = sc]
       /\ UNCHANGED <<committed, queueIntervals>>

\* processQueue is called, by the partition's interval or by a status
\* interval that counted at least two rows, and awaits getGameConfig.
ScanStart(s) ==
  /\ scans[s].pc = "idle"
  /\ \A k \in ScanIds : k < s => scans[k].pc # "idle"
  /\ scanRuns < MaxScanRuns
  /\ \E gameType \in QueueGames, matchType \in MatchTypes :
       /\ \/ Partition(gameType, matchType) \in queueIntervals
          \/ /\ \E i \in statusIntervals : i.game = gameType /\ i.mtype = matchType
             /\ Cardinality(RowsOf(queue, gameType, matchType)) >= REQUIRED_PLAYERS
       /\ scans' = [scans EXCEPT ![s] =
            [IdleScan EXCEPT !.pc = "select", !.game = gameType, !.mtype = matchType]]
  /\ scanRuns' = scanRuns + 1
  /\ UNCHANGED <<clock, queue, nextRowId, socketKeys, queueIntervals,
                 statusIntervals, joins, committed, matchFound, joinRuns>>
  /\ UNCHANGED keyTtl
  /\ UNCHANGED nonQueueVars

\* The SELECT of getQueuedPlayers: the snapshot of the partition.
ScanSelect(s) ==
  /\ scans[s].pc = "select"
  /\ \E rows \in Orderings(RowsOf(queue, scans[s].game, scans[s].mtype)) :
       NextRow(s, [scans[s] EXCEPT !.pc = "verify", !.pending = rows,
                                   !.verified = <<>>])
  /\ UNCHANGED <<clock, queue, nextRowId, socketKeys, statusIntervals, joins,
                 matchFound, scanRuns, joinRuns>>
  /\ UNCHANGED keyTtl
  /\ UNCHANGED nonQueueVars

\* redis.get of the socket key of the next row of the snapshot.
ScanVerify(s) ==
  /\ scans[s].pc = "verify"
  /\ LET player == Head(scans[s].pending) IN
       IF player.user_id \in socketKeys
       THEN NextRow(s, [scans[s] EXCEPT !.pending = Tail(@),
                                        !.verified = Append(@, player)])
       ELSE /\ scans' = [scans EXCEPT ![s].pc = "evict"]
            /\ UNCHANGED <<committed, queueIntervals>>
  /\ UNCHANGED <<clock, queue, nextRowId, socketKeys, statusIntervals, joins,
                 matchFound, scanRuns, joinRuns>>
  /\ UNCHANGED keyTtl
  /\ UNCHANGED nonQueueVars

\* The row has no socket key: removeFromAllQueues(player.user_id).
ScanEvict(s) ==
  /\ scans[s].pc = "evict"
  /\ queue' \in removeFromAllQueues(queue, Head(scans[s].pending).user_id)
  /\ NextRow(s, [scans[s] EXCEPT !.pc = "verify", !.pending = Tail(@)])
  /\ UNCHANGED <<clock, nextRowId, socketKeys, statusIntervals, joins,
                 matchFound, scanRuns, joinRuns>>
  /\ UNCHANGED keyTtl
  /\ UNCHANGED nonQueueVars

\* The SELECT or a redis.get of getQueuedPlayers rejects: its catch logs and
\* returns [], and processQueue goes on with no players.
ScanSnapshotFails(s) ==
  /\ scans[s].pc \in {"select", "verify"}
  /\ AfterSnapshot(s, [scans[s] EXCEPT !.pending = <<>>, !.verified = <<>>])
  /\ UNCHANGED <<clock, queue, nextRowId, socketKeys, statusIntervals, joins,
                 matchFound, scanRuns, joinRuns>>
  /\ UNCHANGED keyTtl
  /\ UNCHANGED nonQueueVars

\* The redis.get of step 2 rejects: the catch of processQueue logs and the
\* call returns, with the members still in the queue.
ScanNotifyFails(s) ==
  /\ scans[s].pc = "notify"
  /\ scans' = [scans EXCEPT ![s] = IdleScan]
  /\ UNCHANGED <<clock, queue, nextRowId, socketKeys, queueIntervals,
                 statusIntervals, joins, committed, matchFound, scanRuns, joinRuns>>
  /\ UNCHANGED keyTtl
  /\ UNCHANGED nonQueueVars

\* Step 2 of the loop over the matches: redis.get of a member's socket key,
\* and match-found emitted when there is one.
ScanNotify(s) ==
  /\ scans[s].pc = "notify"
  /\ LET sc == scans[s]
         match == sc.matches[sc.mi]
         player == match[sc.pi]
     IN /\ matchFound' = IF player.user_id \in socketKeys
                         THEN matchFound \cup {<<player.user_id, sc.session>>}
                         ELSE matchFound
        /\ scans' = [scans EXCEPT ![s] =
             IF sc.pi < Len(match) THEN [sc EXCEPT !.pi = sc.pi + 1]
             ELSE [sc EXCEPT !.pc = "remove", !.pi = 1]]
  /\ UNCHANGED <<clock, queue, nextRowId, socketKeys, queueIntervals,
                 statusIntervals, joins, committed, scanRuns, joinRuns>>
  /\ UNCHANGED keyTtl
  /\ UNCHANGED nonQueueVars

\* Step 3: removeFromAllQueues of a member; after the last member the next
\* match is created, or the remaining players are read.
ScanRemove(s) ==
  /\ scans[s].pc = "remove"
  /\ LET sc == scans[s]
         match == sc.matches[sc.mi]
     IN /\ queue' \in removeFromAllQueues(queue, match[sc.pi].user_id)
        /\ IF sc.pi < Len(match)
           THEN /\ scans' = [scans EXCEPT ![s].pi = sc.pi + 1]
                /\ UNCHANGED committed
           ELSE IF sc.mi < Len(sc.matches)
           THEN /\ committed' = Append(committed,
                      createMatch(sc.matches[sc.mi + 1], sc.game, sc.mtype, clock))
                /\ scans' = [scans EXCEPT ![s] =
                      [sc EXCEPT !.pc = "notify", !.mi = sc.mi + 1, !.pi = 1,
                                 !.session = Len(committed) + 1]]
           ELSE /\ scans' = [scans EXCEPT ![s] =
                      [sc EXCEPT !.pc = "select", !.phase = "remaining"]]
                /\ UNCHANGED committed
  /\ UNCHANGED <<clock, nextRowId, socketKeys, queueIntervals, statusIntervals,
                 joins, matchFound, scanRuns, joinRuns>>
  /\ UNCHANGED keyTtl
  /\ UNCHANGED nonQueueVars

NextQueue ==
  \/ Tick
  \/ \E j \in JoinIds : JoinStart(j)
  \/ \E j \in JoinIds : JoinDelete(j)
  \/ \E j \in JoinIds : JoinInsert(j)
  \/ \E j \in JoinIds : JoinSetEx(j)
  \/ \E userId \in QueueUsers : Leave(userId)
  \/ \E s \in ScanIds : ScanStart(s)
  \/ \E s \in ScanIds : ScanSelect(s)
  \/ \E s \in ScanIds : ScanVerify(s)
  \/ \E s \in ScanIds : ScanEvict(s)
  \/ \E s \in ScanIds : ScanSnapshotFails(s)
  \/ \E s \in ScanIds : ScanNotify(s)
  \/ \E s \in ScanIds : ScanNotifyFails(s)
  \/ \E s \in ScanIds : ScanRemove(s)

\* The service after user 2 has joined the ranked tictactoe partition and
\* left it again: the row is gone, the socket key and the partition's scan
\* interval are still there (leave-queue clears neither).
ArmedQueue ==
  /\ clock = 0
  /\ queue = {}
  /\ nextRowId = 2
  /\ socketKeys = {2}
  /\ keyTtl = [u \in KeyUsers |-> IF u = 2 THEN SOCKET_TTL_S * 1000 ELSE 0]
  /\ queueIntervals = {Partition("tictactoe", "ranked")}
  /\ statusIntervals = {}
  /\ scans = [s \in ScanIds |-> IdleScan]
  /\ joins = [j \in JoinIds |-> IdleJoin]
  /\ committed = <<>>
  /\ matchFound = {}
  /\ scanRuns = 0
  /\ joinRuns = 0

\* The service 270 s after user 2 joined the ranked tictactoe partition and
\* found nobody to play: the row waits, the scans run, and the socket key
\* set by that join has 30 s left.  Times count from the model's start.
AgedQueue ==
  /\ clock = 0
  /\ queue = {[id |-> 1, user_id |-> 2, game_type |-> "tictactoe",
                match_type |-> "ranked", elo_rating |-> UserElo(2),
                joined_at |-> TickMs - SOCKET_TTL_S * 1000]}
  /\ nextRowId = 2
  /\ socketKeys = {2}
  /\ keyTtl = [u \in KeyUsers |-> IF u = 2 THEN TickMs ELSE 0]
  /\ queueIntervals = {Partition("tictactoe", "ranked")}
  /\ statusIntervals = {[user |-> 2, game |-> "tictactoe", mtype |-> "ranked",
                          current |-> TRUE]}
  /\ scans = [s \in ScanIds |-> IdleScan]
  /\ joins = [j \in JoinIds |-> IdleJoin]
  /\ committed = <<>>
  /\ matchFound = {}
  /\ scanRuns = 0
  /\ joinRuns = 1

\* The service while a scan of the ranked tictactoe partition is under
\* way: users 3, 4 and 2 had joined, the scan has paired two of them,
\* notified and removed them, and is about to read the remaining players.
\* joinRuns and scanRuns count user 2's join and this scan.
PairedRows ==
  <<[id |-> 1, user_id |-> 3, game_type |-> "tictactoe", match_type |-> "ranked",
     elo_rating |-> UserElo(3), joined_at |-> 0],
    [id |-> 2, user_id |-> 4, game_type |-> "tictactoe", match_type |-> "ranked",
     elo_rating |-> UserElo(4), joined_at |-> 0],
    [id |-> 3, user_id |-> 2, game_type |-> "tictactoe", match_type |-> "ranked",
     elo_rating |-> UserElo(2), joined_at |-> 0]>>

PairedQueue ==
  LET matches == findMatches(PairedRows, REQUIRED_PLAYERS, "ranked", 0) IN
  /\ clock = 0
  /\ queue = {PairedRows[3]}
  /\ nextRowId = 4
  /\ socketKeys = {2} \cup PairedUsers
  /\ keyTtl = [u \in KeyUsers |-> IF u = 1 THEN 0 ELSE SOCKET_TTL_S * 1000]
  /\ queueIntervals = {Partition("tictactoe", "ranked")}
  /\ statusIntervals = {[user |-> u, game |-> "tictactoe", mtype |-> "ranked",
                          current |-> TRUE] : u \in {2} \cup PairedUsers}
  /\ scans = [s \in ScanIds |->
                IF s = 1
                THEN [pc |-> "select", game |-> "tictactoe", mtype |-> "ranked",
                      phase |-> "remaining", pending |-> <<>>, verified |-> PairedRows,
                      matches |-> matches, mi |-> 1, pi |-> REQUIRED_PLAYERS,
                      session |-> 1]
                ELSE IdleScan]
  /\ joins = [j \in JoinIds |-> IdleJoin]
  /\ committed = <<createMatch(matches[1], "tictactoe", "ranked", 0)>>
  /\ matchFound = {<<matches[1][k].user_id, 1>> : k \in 1..Len(matches[1])}
  /\ scanRuns = 1
  /\ joinRuns = 1

InitQueue ==
  /\ IdleQueue \/ ArmedQueue \/ AgedQueue \/ PairedQueue
  /\ IdleRest
  /\ IdleRooms
  /\ game = IdleGame
  /\ fmPc = "idle"
  /\ fmPlayers = <<>>
  /\ fmRequired = 2
  /\ fmType = "casual"
  /\ fmNow = 0
  /\ fmResult = [matches |-> <<>>, usedPlayers |-> {}]

SpecQueue == InitQueue /\ [][NextQueue]_vars

\* ----------------------------------------------------- claims on the queue
RowIds(players) == {players[k].id : k \in 1..Len(players)}

EntrantsOf(q, userId) == {r \in q : r.user_id = userId}

\* C1: under any interleaving of the scans of one partition, no Entrant is
\* claimed into two committed MatchGroups: the groups committed so far are
\* pairwise disjoint in the queue rows they hold.
C1_NoEntrantClaimedTwice ==
  \A a, b \in 1..Len(committed) :
    a # b => RowIds(committed[a].players) \cap RowIds(committed[b].players) = {}

\* C2: in every MatchGroup committed by a ranked scan at time t, every
\* member C is within 100 + floor(wait(E) / 30 s) * 50 rating points of the
\* group's anchor E (its first member), with wait(E) = t - joined_at(E).
C2_RankedGapBounded ==
  \A k \in 1..Len(committed) :
    committed[k].matchType = "ranked" =>
      LET E == committed[k].players[1]
          t == committed[k].session_id
      IN \A i \in 1..Len(committed[k].players) :
           LET C == committed[k].players[i]
               gap == IF E.elo_rating >= C.elo_rating
                      THEN E.elo_rating - C.elo_rating
                      ELSE C.elo_rating - E.elo_rating
           IN gap <= 100 + ((t - E.joined_at) \div 30000) * 50

\* A ranked group was committed whose members are further apart than the
\* base threshold, admitted because the anchor had waited.
C2_Witness ==
  \E k \in 1..Len(committed) :
    /\ committed[k].matchType = "ranked"
    /\ Len(committed[k].players) = REQUIRED_PLAYERS
    /\ committed[k].players[1].elo_rating + ELO_THRESHOLD
         < committed[k].players[2].elo_rating
    /\ committed[k].session_id - committed[k].players[1].joined_at
         >= EXPANSION_INTERVAL

\* C5: after any interleaving of joins, leaves and scans the queue holds at
\* most one Entrant per (participant, gameType), whatever the match type,
\* and when a join completes (addToQueue returns) the participant's only
\* Entrant is the one that join inserted.
C5_OneEntrantPerJoin ==
  /\ [](\A userId \in QueueUsers, gameType \in QueueGames :
          Cardinality({r \in EntrantsOf(queue, userId) : r.game_type = gameType}) <= 1)
  /\ [][\A j \in JoinIds :
          (joins[j].pc = "setex" /\ joins'[j].pc = "idle")
            => \A r \in EntrantsOf(queue', joins[j].user) : r.id = joins[j].row]_vars

\* The step in which processQueue call s returns.
ScanReturns(s) == scans[s].pc # "idle" /\ scans'[s].pc = "idle"

\* C24: after a scan has committed a MatchGroup and returned, none of the
\* group's members still has an Entrant in the queue, on every execution
\* path including one where a removal query fails: no row the scan put in a
\* group is in the queue when the scan returns.
C24_MatchedEntrantsRemoved ==
  [][\A s \in ScanIds :
       ScanReturns(s) =>
         \A k \in 1..Len(scans[s].matches) :
           \A r \in queue' : r.id \notin RowIds(scans[s].matches[k])]_vars

\* C29: a scan of partition P (its snapshot eviction and its post-commit
\* removal) never removes or alters an Entrant that belongs to a different
\* partition Q, also when a participant of P re-joins Q while the scan of P
\* is suspended: every row outside P is still there after a step of the scan.
C29_ScanKeepsToItsPartition ==
  [][\A s \in ScanIds :
       scans'[s] # scans[s] =>
         \A r \in queue :
           (r.game_type # scans[s].game \/ r.match_type # scans[s].mtype)
             => r \in queue']_vars

\* C30: getQueuedPlayers returns exactly the partition's entrants whose
\* liveness token (the socket key) is present, in ascending joinTimestamp
\* order, and removes from the queue every entrant of the partition whose
\* token is absent.  Followed through the call: the SELECT yields the rows of
\* the partition in ascending joined_at order; a row whose key is found is
\* appended to the rows to return, a row whose key is not found is not, and
\* after the removal that follows the partition holds no row of its user.
C30_SnapshotVerified ==
  /\ [](\A s \in ScanIds :
          scans[s].pc \in {"verify", "evict"} =>
            LET sc == scans[s]
                rows == sc.verified \o sc.pending
            IN /\ IsSortedByJoined(rows)
               /\ \A k \in 1..Len(rows) :
                    rows[k].game_type = sc.game /\ rows[k].match_type = sc.mtype)
  /\ [][\A s \in ScanIds :
          LET sc == scans[s] IN
          /\ (sc.pc = "select" /\ scans'[s].pc = "verify") =>
               /\ SeqToSet(scans'[s].pending) = RowsOf(queue, sc.game, sc.mtype)
               /\ scans'[s].verified = <<>>
          /\ (sc.pc = "verify" /\ scans'[s].pc = "verify" /\ scans'[s] # sc) =>
               /\ Head(sc.pending).user_id \in socketKeys
               /\ scans'[s].verified = Append(sc.verified, Head(sc.pending))
               /\ scans'[s].pending = Tail(sc.pending)
          /\ (sc.pc = "verify" /\ scans'[s].pc = "evict") =>
               Head(sc.pending).user_id \notin socketKeys
          /\ (sc.pc = "evict" /\ scans'[s] # sc) =>
               \A r \in RowsOf(queue', sc.game, sc.mtype) :
                 r.user_id # Head(sc.pending).user_id]_vars

\* The players getQueuedPlayers hands back in a step in which it returns.
LiveFound(s) ==
  Len(scans[s].verified)
    + (IF scans[s].pc = "verify" /\ Head(scans[s].pending).user_id \in socketKeys
       THEN 1 ELSE 0)

\* C31: when a scan finds fewer than requiredPlayers live entrants in its
\* partition it commits nothing and the partition's periodic scan interval
\* is stopped: after the step in which such a scan returns, the partition is
\* not in queueIntervals.
C31_ShortScanStopsInterval ==
  [][\A s \in ScanIds :
       (/\ scans[s].phase = "first"
        /\ scans[s].pc \in {"select", "verify", "evict"}
        /\ ScanReturns(s)
        /\ LiveFound(s) < REQUIRED_PLAYERS)
         => /\ committed' = committed
            /\ Partition(scans[s].game, scans[s].mtype) \notin queueIntervals']_vars

\* A step of scan s in which one of its queries rejected, and which no step
\* without a rejection explains.
ScanFailed(s) ==
  /\ ScanSnapshotFails(s) \/ ScanNotifyFails(s)
  /\ ~(ScanSelect(s) \/ ScanVerify(s) \/ ScanNotify(s))

\* C32: a pairing scan that fails (snapshot or notification raising an
\* error) returns without propagating the error and does not stop the
\* partition's scan interval: the partition's interval is armed after the
\* failing step if it was armed before it.
C32_FailedScanKeepsInterval ==
  [][\A s \in ScanIds :
       ScanFailed(s) =>
         /\ scans'[s].pc = "idle"
         /\ Partition(scans[s].game, scans[s].mtype) \in queueIntervals
              => Partition(scans[s].game, scans[s].mtype) \in queueIntervals']_vars

\* The live entrants of a partition: its rows whose user has a socket key.
LiveEntrants(gameType, matchType) ==
  {r \in RowsOf(queue, gameType, matchType) : r.user_id \in socketKeys}

\* C35: whenever a partition holds at least requiredPlayers live entrants
\* and no scan of it is in progress (nor a join into it that has yet to arm
\* the interval), a scan interval is armed for that partition.
C35_IntervalArmedWhilePairable ==
  \A gameType \in QueueGames, matchType \in MatchTypes :
    (/\ Cardinality(LiveEntrants(gameType, matchType)) >= REQUIRED_PLAYERS
     /\ \A s \in ScanIds :
          scans[s].pc = "idle" \/ scans[s].game # gameType \/ scans[s].mtype # matchType
     /\ \A j \in JoinIds :
          joins[j].pc = "idle" \/ joins[j].game # gameType \/ joins[j].mtype # matchType)
      => Partition(gameType, matchType) \in queueIntervals

\* leave-queue clears the status interval of the user's socket, and only a
\* join arms one: a user with a row whose addToQueue call has returned and
\* with no status interval held by the socket has left the queue since.
HasLeft(r) ==
  /\ \A j \in JoinIds : joins[j].pc = "idle" \/ joins[j].row # r.id
  /\ \A x \in statusIntervals : ~(x.user = r.user_id /\ x.current)

\* C36: a participant whose leave completed before a scan commits its
\* groups is not a member of any group that scan commits (and so receives
\* no match-found for it): no member of a group being committed has left.
C36_LeaverNotCommitted ==
  [][committed' # committed =>
       \A k \in 1..Len(committed'[Len(committed')].players) :
         ~HasLeft(committed'[Len(committed')].players[k])]_vars

\* C37: for every MatchGroup a scan commits, match-found is emitted to
\* every member of the group: when the scan has gone through the members of
\* the group (step 2) and turns to removing them from the queue (step 3),
\* every member has been sent match-found for the group's session.
C37_EveryMemberNotified ==
  [][\A s \in ScanIds :
       (scans[s].pc = "notify" /\ scans'[s].pc = "remove") =>
         \A k \in 1..Len(scans[s].matches[scans[s].mi]) :
           <<scans[s].matches[scans[s].mi][k].user_id, scans[s].session>>
             \in matchFound']_vars

\* C38: two distinct committed matches never get the same session_id,
\* including two matches created within the same clock tick.
C38_SessionIdsDistinct ==
  \A a, b \in 1..Len(committed) :
    a # b => committed[a].session_id # committed[b].session_id

\* The queue-status intervals armed for a user's socket.
StatusIntervalsOf(userId) == {x \in statusIntervals : x.user = userId}

\* C40: per socket at most one queue-status interval is armed at any time,
\* and after leave-queue or disconnect of that socket none remains armed,
\* also when join-queue is received twice on the same socket.
C40_OneStatusInterval ==
  /\ [](\A userId \in QueueUsers : Cardinality(StatusIntervalsOf(userId)) <= 1)
  /\ [][\A userId \in QueueUsers :
          Leave(userId) => \A x \in statusIntervals' : x.user # userId]_vars

\* -------------------------------------------------------------- SpecLegacy
\* One TicTacToeGame of games/TicTacToeGame.ts with its two players, driven
\* through the public methods of games/BaseGame.ts.
nonLegacyVars == <<findVars, game, roomVars, queueVars, eloVars, ledgerVars>>

LegacyMakeMove ==
  \E playerId \in LegacyCallers, position \in Positions :
    /\ legacyGame' = legacyMakeMove(legacyGame, playerId, position)
    /\ UNCHANGED nonLegacyVars

LegacyForfeit ==
  \E playerId \in LegacyCallers :
    /\ legacyGame' = forfeit(legacyGame, playerId)
    /\ UNCHANGED nonLegacyVars

NextLegacy == LegacyMakeMove \/ LegacyForfeit

InitLegacy ==
  /\ IdleLegacy
  /\ IdleElo
  /\ IdleLedger
  /\ IdleQueue
  /\ IdleRooms
  /\ game = IdleGame
  /\ fmPc = "idle"
  /\ fmPlayers = <<>>
  /\ fmRequired = 2
  /\ fmType = "casual"
  /\ fmNow = 0
  /\ fmResult = [matches |-> <<>>, usedPlayers |-> {}]

SpecLegacy == InitLegacy /\ [][NextLegacy]_vars

\* ------------------------------------------- claims on games/BaseGame.ts
\* C16 (as stated): forfeit called on a game that is already finished, by a
\* win, a draw or an earlier forfeit, leaves isFinished and winner as they
\* were.
C16_ForfeitAfterFinish ==
  [][\A playerId \in LegacyCallers :
       (legacyGame.isFinished /\ legacyGame' = forfeit(legacyGame, playerId))
         => /\ legacyGame'.isFinished = legacyGame.isFinished
            /\ legacyGame'.winner = legacyGame.winner]_vars

\* ----------------------------------------------------------------- SpecElo
\* calculateNewRatings applied once to an input drawn from bounded sets.
PriorRatings == {100, 500, 505, 515, 516, 1000, 1400}
RatingSteps == {-2, -1, 0, 1, 2}
MultiRatings == {500, 510, 1000}

\* Two GameResults whose ratings differ by a multiple of 400.
TwoPlayerInputs ==
  UNION {{<<[userId |-> 1, result |-> o1, eloBefore |-> r],
            [userId |-> 2, result |-> o2, eloBefore |-> r + k * ELO_SCALE]>> :
            o1 \in Outcomes, o2 \in Outcomes,
            k \in {x \in RatingSteps : r + x * ELO_SCALE >= 0}} :
         r \in PriorRatings}

\* No, one, or more than two GameResults.
MultiInputs ==
  UNION {{[i \in 1..n |-> [userId |-> i, result |-> f[i].result,
                           eloBefore |-> f[i].eloBefore]] :
            f \in [1..n -> [result : Outcomes, eloBefore : MultiRatings]]} :
         n \in (0..MaxParticipants) \ {2}}

nonEloVars == <<findVars, game, roomVars, queueVars, legacyGame, ledgerVars>>

CalculateNewRatings ==
  /\ eloPc = "input"
  /\ eloNewRatings' = calculateNewRatings(eloResults)
  /\ eloPc' = "done"
  /\ UNCHANGED <<eloResults, nonEloVars>>

NextElo == CalculateNewRatings

InitElo ==
  /\ eloPc = "input"
  /\ eloResults \in TwoPlayerInputs \cup MultiInputs
  /\ eloNewRatings = <<>>
  /\ IdleLegacy
  /\ IdleLedger
  /\ IdleQueue
  /\ IdleRooms
  /\ game = IdleGame
  /\ fmPc = "idle"
  /\ fmPlayers = <<>>
  /\ fmRequired = 2
  /\ fmType = "casual"
  /\ fmNow = 0
  /\ fmResult = [matches |-> <<>>, usedPlayers |-> {}]

SpecElo == InitElo /\ [][NextElo]_vars

\* ------------------------------------------- claims on EloRatingService
\* C17: every rating calculateNewRatings returns is at least 500, for any
\* number of participants, any prior ratings and any outcomes.
C17_RatingFloor ==
  eloPc = "done" => \A u \in DOMAIN eloNewRatings : eloNewRatings[u] >= 500

\* C17 witness: a call returned 500 for a participant who lost and whose
\* prior rating was already 500 or less.
C17_Witness ==
  /\ eloPc = "done"
  /\ \E i \in 1..Len(eloResults) :
       /\ eloResults[i].eloBefore <= 500
       /\ eloResults[i].result = "loss"
       /\ eloResults[i].userId \in DOMAIN eloNewRatings
       /\ eloNewRatings[eloResults[i].userId] = 500

\* A two-player call with equal prior ratings r >= 500 in which the
\* participant at index w won and the other one lost.
EqualWinLoss(w) ==
  /\ eloPc = "done"
  /\ Len(eloResults) = 2
  /\ eloResults[1].eloBefore = eloResults[2].eloBefore
  /\ eloResults[w].eloBefore >= 500
  /\ eloResults[w].result = "win"
  /\ eloResults[3 - w].result = "loss"

\* C18 (as stated): for equal prior ratings r, every r >= 500, the winner's
\* gain equals the loser's loss: newRating(winner) - r = r - newRating(loser).
C18_SymmetryForEveryRating ==
  \A w \in {1, 2} :
    EqualWinLoss(w) =>
      LET r == eloResults[w].eloBefore IN
      eloNewRatings[eloResults[w].userId] - r
        = r - eloNewRatings[eloResults[3 - w].userId]

\* C18 (amended): for equal prior ratings r >= 500 the winner gains 16 and
\* the loser gets max(500, r - 16), so that gain and loss are equal exactly
\* for r >= 516; below that the loser is held at 500 and loses less than the
\* winner gains.
C18_SymmetryAboveFloor ==
  \A w \in {1, 2} :
    EqualWinLoss(w) =>
      LET r == eloResults[w].eloBefore
          won == eloNewRatings[eloResults[w].userId]
          lost == eloNewRatings[eloResults[3 - w].userId]
      IN /\ won = r + 16
         /\ lost = IF r - 16 < 500 THEN 500 ELSE r - 16
         /\ (won - r = r - lost) <=> (r >= 516)

\* C18 witness: equal ratings at or above 516, one win and one loss.
C18_Witness ==
  \E w \in {1, 2} : EqualWinLoss(w) /\ eloResults[w].eloBefore >= 516

\* What the claim gives participant i of a two-player call:
\* max(500, round(prior + 32 * (actual - expected))), with actual taken from
\* the participant's own outcome.
ClaimedRating(i) ==
  LET own == eloResults[i]
      other == eloResults[3 - i]
      actual2 == IF own.result = "win" THEN 2
                 ELSE IF own.result = "draw" THEN 1 ELSE 0
      expected == getExpectedScore(own.eloBefore, other.eloBefore)
      \* round(prior + 32 * (actual2 / 2 - num / den))
      rounded == (2 * (own.eloBefore * expected.den + 16 * actual2 * expected.den
                         - 32 * expected.num) + expected.den)
                   \div (2 * expected.den)
  IN IF rounded < 500 THEN 500 ELSE rounded

\* C19: for exactly two participants calculateNewRatings returns for each
\* max(500, round(prior + 32 * (actual - expected))), actual being 1 for a
\* win, 0.5 for a draw and 0 for loss, forfeit, disconnect and timeout, by the
\* participant's own outcome only; A(1000) beating B(1000) gives 1016 and 984.
C19_TwoPlayerFormula ==
  (eloPc = "done" /\ Len(eloResults) = 2) =>
    /\ DOMAIN eloNewRatings = {eloResults[1].userId, eloResults[2].userId}
    /\ \A i \in {1, 2} : eloNewRatings[eloResults[i].userId] = ClaimedRating(i)
    /\ (/\ eloResults[1].eloBefore = 1000 /\ eloResults[2].eloBefore = 1000
        /\ eloResults[1].result = "win" /\ eloResults[2].result = "loss")
         => (eloNewRatings[1] = 1016 /\ eloNewRatings[2] = 984)

\* C19 witness: the call of Scenario 3 has returned, A(1000) beat B(1000).
C19_Witness ==
  /\ eloPc = "done"
  /\ Len(eloResults) = 2
  /\ eloResults[1].eloBefore = 1000 /\ eloResults[2].eloBefore = 1000
  /\ eloResults[1].result = "win" /\ eloResults[2].result = "loss"
  /\ eloNewRatings[1] = 1016 /\ eloNewRatings[2] = 984

\* C20 (as stated): for more than two participants calculateNewRatings
\* returns an entry for every participant: prior + 19 for a win and
\* max(500, prior - 13) for every other outcome.
C20_MultiPlayerDeltas ==
  (eloPc = "done" /\ Len(eloResults) > 2) =>
    \A i \in 1..Len(eloResults) :
      /\ eloResults[i].userId \in DOMAIN eloNewRatings
      /\ eloNewRatings[eloResults[i].userId] =
           IF eloResults[i].result = "win" THEN eloResults[i].eloBefore + 19
           ELSE IF eloResults[i].eloBefore - 13 < 500 THEN 500
           ELSE eloResults[i].eloBefore - 13

\* -------------------------------------------------------------- SpecLedger
\* Calls of EloRatingService.updatePlayerRatings on one database, each
\* advancing from one await to the next; call c is for session c.
nonLedgerVars == <<findVars, game, roomVars, queueVars, legacyGame, eloVars>>

Entries(call) == {call.newRatings[k] : k \in 1..Len(call.newRatings)}

\* The end of the loop body: the next entry of the Map, or COMMIT.
NextEntry(call) ==
  IF call.i < Len(call.newRatings)
  THEN [call EXCEPT !.pc = "selectStats", !.i = @ + 1]
  ELSE [call EXCEPT !.pc = "commit"]

\* Another open transaction has written the row and holds its lock.
StatsLocked(c, u) ==
  \E d \in CallIds \ {c} : InTransaction(calls[d]) /\ calls[d].sw[u] # Untouched

\* updatePlayerRatings is called and awaits pool.connect(), which may reject
\* (the rejection is outside the try and reaches the caller).
UpdatePlayerRatings(c) ==
  /\ calls[c].pc = "idle"
  /\ \A d \in CallIds : d < c => calls[d].pc # "idle"
  /\ \E newRatings \in RatingMaps, connected \in BOOLEAN :
       calls' = [calls EXCEPT ![c] =
         [IdleCall EXCEPT !.pc = IF connected THEN "begin" ELSE "raised",
                          !.sessionId = c, !.newRatings = newRatings,
                          !.before = <<user_statistics, game_participants>>]]
  /\ UNCHANGED <<user_statistics, game_participants, nonLedgerVars>>

\* await client.query('BEGIN')
Begin(c) ==
  /\ calls[c].pc = "begin"
  /\ calls' = [calls EXCEPT ![c].pc = "selectStats", ![c].i = 1]
  /\ UNCHANGED <<user_statistics, game_participants, nonLedgerVars>>

\* SELECT * FROM user_statistics WHERE user_id = $1
SelectStats(c) ==
  /\ calls[c].pc = "selectStats"
  /\ LET call == calls[c]
         userId == call.newRatings[call.i].userId
     IN calls' = [calls EXCEPT ![c].pc = "writeStats",
                   ![c].currentStats = Visible(user_statistics[userId], call.sw[userId])]
  /\ UNCHANGED <<user_statistics, game_participants, nonLedgerVars>>

\* The INSERT (no row was selected) or the UPDATE of user_statistics.  The
\* INSERT of a user_id that has a committed row by now violates the primary
\* key and rejects.
WriteStats(c) ==
  /\ calls[c].pc = "writeStats"
  /\ LET call == calls[c]
         entry == call.newRatings[call.i]
         q == queryInTransaction(user_statistics, call.sw, entry.userId,
                                 statsRow(call.currentStats, entry.newRating))
     IN /\ ~StatsLocked(c, entry.userId)
        /\ IF ~call.currentStats.present /\ user_statistics[entry.userId].present
           THEN /\ calls' = [calls EXCEPT ![c].pc = "rollback"]
                /\ UNCHANGED user_statistics
           ELSE /\ user_statistics' = q.table
                /\ calls' = [calls EXCEPT ![c].pc = "selectParticipant",
                                          ![c].sw = q.written]
  /\ UNCHANGED <<game_participants, nonLedgerVars>>

\* SELECT elo_before FROM game_participants WHERE session_id AND user_id
SelectParticipant(c) ==
  /\ calls[c].pc = "selectParticipant"
  /\ LET call == calls[c]
         userId == call.newRatings[call.i].userId
         row == Visible(game_participants[call.sessionId][userId], call.pw[userId])
     IN calls' = [calls EXCEPT ![c] =
          IF row.present
          THEN [call EXCEPT !.pc = "writeParticipant", !.eloBefore = row]
          ELSE NextEntry(call)]
  /\ UNCHANGED <<user_statistics, game_participants, nonLedgerVars>>

\* UPDATE game_participants SET elo_after, elo_change
WriteParticipant(c) ==
  /\ calls[c].pc = "writeParticipant"
  /\ LET call == calls[c]
         entry == call.newRatings[call.i]
         q == queryInTransaction(game_participants[call.sessionId], call.pw,
                                 entry.userId,
                                 participantRow(call.eloBefore, entry.newRating))
     IN /\ game_participants' = [game_participants EXCEPT ![call.sessionId] = q.table]
        /\ calls' = [calls EXCEPT ![c] = NextEntry([call EXCEPT !.pw = q.written])]
  /\ UNCHANGED <<user_statistics, nonLedgerVars>>

\* await client.query('COMMIT'), then client.release() and the return.
Commit(c) ==
  /\ calls[c].pc = "commit"
  /\ user_statistics' = commitWrites(user_statistics, calls[c].sw)
  /\ game_participants' =
       [game_participants EXCEPT ![calls[c].sessionId] = commitWrites(@, calls[c].pw)]
  /\ calls' = [d \in CallIds |->
       IF d = c THEN [calls[c] EXCEPT !.pc = "done", !.sw = IdleCall.sw, !.pw = IdleCall.pw]
       ELSE IF calls[d].pc = "idle" THEN calls[d]
       ELSE [calls[d] EXCEPT !.disturbed = TRUE]]
  /\ UNCHANGED nonLedgerVars

\* The statement the call awaits rejects (connection lost, deadlock detected,
\* constraint violated, ...): the catch block is entered.
StatementFails(c) ==
  /\ calls[c].pc \in {"begin", "selectStats", "writeStats", "selectParticipant",
                      "writeParticipant", "commit"}
  /\ calls' = [calls EXCEPT ![c].pc = "rollback"]
  /\ UNCHANGED <<user_statistics, game_participants, nonLedgerVars>>

\* catch: await client.query('ROLLBACK'), throw error, client.release().  When
\* the ROLLBACK itself rejects, its error is the one thrown and the server
\* aborts the transaction of the lost connection.
Rollback(c) ==
  /\ calls[c].pc = "rollback"
  /\ calls' = [calls EXCEPT ![c].pc = "raised", ![c].sw = IdleCall.sw,
                            ![c].pw = IdleCall.pw]
  /\ UNCHANGED <<user_statistics, game_participants, nonLedgerVars>>

NextLedger ==
  \/ \E c \in CallIds : UpdatePlayerRatings(c)
  \/ \E c \in CallIds : Begin(c)
  \/ \E c \in CallIds : SelectStats(c)
  \/ \E c \in CallIds : WriteStats(c)
  \/ \E c \in CallIds : SelectParticipant(c)
  \/ \E c \in CallIds : WriteParticipant(c)
  \/ \E c \in CallIds : Commit(c)
  \/ \E c \in CallIds : StatementFails(c)
  \/ \E c \in CallIds : Rollback(c)

InitLedger ==
  /\ user_statistics \in InitialStats
  /\ game_participants = InitialParticipants
  /\ calls = [c \in CallIds |-> IdleCall]
  /\ IdleLegacy
  /\ IdleElo
  /\ IdleQueue
  /\ IdleRooms
  /\ game = IdleGame
  /\ fmPc = "idle"
  /\ fmPlayers = <<>>
  /\ fmRequired = 2
  /\ fmType = "casual"
  /\ fmNow = 0
  /\ fmResult = [matches |-> <<>>, usedPlayers |-> {}]

SpecLedger == InitLedger /\ [][NextLedger]_vars

\* ------------------------------------------- claims on updatePlayerRatings
Ledger == <<user_statistics, game_participants>>

\* Every entry of the call's Map is in the ledger: rating, peak rating and,
\* for a participant row of the session, elo_after and elo_change.
AppliedIn(call, stats, participants) ==
  \A e \in Entries(call) :
    LET old == call.before[1][e.userId]
        part == call.before[2][call.sessionId][e.userId]
    IN /\ stats[e.userId].present
       /\ stats[e.userId].elo_rating = e.newRating
       /\ stats[e.userId].peak_rating >= e.newRating
       /\ ~call.disturbed => stats[e.userId] = statsRow(old, e.newRating)
       /\ part.present =>
            participants[call.sessionId][e.userId] = participantRow(part, e.newRating)

\* C21: updatePlayerRatings is all-or-nothing for one session.  The ledger
\* changes only in the step in which a call's COMMIT succeeds, and that step
\* applies every entry of the call's Map; a call in which a statement failed
\* goes through ROLLBACK to the raise, and when it has raised the ledger is
\* as it was at the call (as long as no other call has committed since).
C21_AllOrNothing ==
  /\ [][Ledger' # Ledger =>
          \E c \in CallIds :
            /\ calls[c].pc = "commit"
            /\ calls'[c].pc = "done"
            /\ AppliedIn(calls[c], user_statistics', game_participants')]_vars
  /\ [][\A c \in CallIds :
          calls[c].pc = "rollback" => calls'[c].pc \in {"rollback", "raised"}]_vars
  /\ [](\A c \in CallIds :
          (calls[c].pc = "raised" /\ ~calls[c].disturbed) => Ledger = calls[c].before)

\* A statement of the second entry failed after the rows of the first entry
\* were written: the call is about to roll back.
C21_Witness ==
  \E c \in CallIds :
    /\ calls[c].pc = "rollback"
    /\ calls[c].i = 2
    /\ \E u \in LedgerUsers : calls[c].sw[u] # Untouched /\ calls[c].pw[u] # Untouched

\* C22: across any interleaving of updatePlayerRatings calls a participant's
\* peak_rating never decreases and is always >= the participant's elo_rating.
C22_PeakMonotone ==
  /\ [](\A u \in LedgerUsers :
          user_statistics[u].present =>
            user_statistics[u].peak_rating >= user_statistics[u].elo_rating)
  /\ [][\A u \in LedgerUsers :
          user_statistics[u].present =>
            user_statistics'[u].peak_rating >= user_statistics[u].peak_rating]_vars

====
